---- MODULE Spec2Model ----
(***************************************************************************)
(* The tile download engine of map-tiles-downloader:                       *)
(* TileDownloader (src/src/map_tiles_downloader/downloader.py).            *)
(*                                                                         *)
(* One download() call creates one asyncio task per tile request; every    *)
(* task runs _download_one.  asyncio tasks are cooperative: the code       *)
(* between two awaits runs without interruption, so one action of the      *)
(* model is one such run, from the await a task resumes at to the next     *)
(* await it suspends at (or to its return).  pause(), resume() and         *)
(* cancel() are called by the front end between those runs.                *)
(***************************************************************************)
EXTENDS Integers, Sequences, FiniteSets, TLC

\* ---------------------------------------------------------------- bounds
\* Number of tile requests handed to download().
NumRequests == 2

\* ----------------------------------------------------- program constants
\* Default of the retry_attempts parameter of TileDownloader; no caller in
\* the repository passes another value.
DefaultRetryAttempts == 3

\* The indices a request list can have.
TaskIds == 1..NumRequests

\* What download() is given as on_progress: a callback, or None (the engine
\* then counts on a tqdm progress bar).
Modes == {"callback", "none"}

\* Destination paths outdir/zoom/x/y.png, one per distinct coordinate; the
\* request list may name the same coordinate more than once.
Paths == 1..NumRequests

\* concurrent_requests of the downloader: with as many slots as requests,
\* or more, the semaphore never blocks, so larger values add no behaviour.
ConcurrencyLevels == 1..NumRequests

VARIABLES
    concurrent_requests,  \* self.concurrent_requests
    retry_attempts,       \* self.retry_attempts
    paused,               \* self.paused
    cancelled,            \* self.cancelled
    requests,             \* the request list: a sequence of destination paths
    on_progress,          \* the on_progress argument of download(), see Modes
    files,                \* destination paths that exist on disk
    callPhase,            \* download(): "idle", "running", "returned", "raised",
                          \* "aborted" (its task was cancelled by asyncio)
    semValue,             \* free slots of the asyncio.Semaphore of this call
    pc,                   \* position of each _download_one task
    attempt,              \* loop variable `attempt` of each task (0 outside the loop)
    events,               \* progress reports made for each request, in order:
                          \* the outcome given to on_progress, or "pbar" for
                          \* a pbar.update(1) when on_progress is None
    earlier,              \* the files on disk at the return of each earlier
                          \* download() call of this downloader, in order
    log,                  \* for each traced request, its attempts that ended
    tui,                  \* tui_main: prog.status, and its position pc:
                          \* "off", "loop", "drain", "done"
    call,                 \* a function of the planning layer (tiling.py,
                          \* kml_regions.py, _requests_for_regions) called
                          \* on its own: its arguments, the name fn of the
                          \* function once it has returned ("none" before),
                          \* and the value it returned
    menu,                 \* a Menu of tui.py: its constructor arguments and
                          \* its fields current, top and selected
    cli                   \* main(): the parsed command line argv, the API key
                          \* variable environ of the provider, its position
                          \* pc ("off", "plan", "key", "run", "download",
                          \* "exit"), the exitCode of the process (-1 while
                          \* it runs), what it wrote to stderr, and the
                          \* effects it has had outside the process

fields == <<concurrent_requests, retry_attempts>>
inputs == <<requests, on_progress>>
engine == <<pc, attempt, events, semValue, files, callPhase, inputs, earlier,
            log>>

units == <<call, menu>>
frontend == <<tui, cli, units>>

vars == <<paused, cancelled, fields, engine, frontend>>

\* One task per request of the list.
Tasks == DOMAIN requests

\* The requests whose attempts are recorded in log.
traced == DOMAIN log

\* The download() call that is running, or ran last, is the run-th of the
\* downloader; files1 is what the first call left on disk.
run == Len(earlier) + 1
files1 == earlier[1]

status == tui.status
tuiPc == tui.pc
argv == cli.argv
environ == cli.environ
mainPc == cli.pc
exitCode == cli.exitCode
stderr == cli.stderr
effects == cli.effects

\* ------------------------------------------------------- task positions
\* Awaits inside `async with semaphore` (the slot is held).
InSection == {"poll", "get", "write", "backoff"}
\* Return statements of _download_one, and an exception leaving it.
Returned == {"cancelled_pre", "skipped", "cancelled_in", "success",
             "http_error", "error", "exhausted", "setup_error"}
Raised == {"raised_pre", "raised_in"}
Terminal == Returned \cup Raised
\* Terminal positions that are reached from inside `async with semaphore`.
LeftSection == {"cancelled_in", "success", "http_error", "error",
                "exhausted", "setup_error", "raised_in"}

\* How many requests of the list r name the coordinate p.
Count(r, p) == Cardinality({i \in DOMAIN r : r[i] = p})

\* Request lists up to a renaming of the coordinates and the order of the
\* requests (tasks are scheduled in any order): a request repeats the
\* coordinate of the one before it or names the next new one, and no
\* coordinate is named more often than the one before it.
RequestLists ==
    UNION {{r \in [1..n -> Paths] :
               /\ \A i \in 1..n :
                      IF i = 1 THEN r[i] = 1 ELSE r[i] \in {r[i-1], r[i-1] + 1}
               /\ \A i \in 2..n : Count(r, r[i]) <= Count(r, r[i] - 1)
                                      \/ r[i] = 1} :
           n \in 0..NumRequests}

\* What can be on disk before the call, up to the same renaming: of two
\* coordinates named equally often, the first is the one on disk if only
\* one of them is.
InitialFiles(r) ==
    {F \in SUBSET {r[i] : i \in DOMAIN r} :
        \A q \in F : (q > 1 /\ Count(r, q) = Count(r, q - 1)) => q - 1 \in F}

\* A downloader right after TileDownloader(...), and the list and the
\* output directory that download() will be given.
Constructed ==
    /\ concurrent_requests \in ConcurrencyLevels
    /\ retry_attempts = DefaultRetryAttempts
    /\ paused = FALSE
    /\ cancelled = FALSE
    /\ requests \in RequestLists
    /\ files \in InitialFiles(requests)
    /\ callPhase = "idle"
    /\ semValue = 0
    /\ pc = [t \in Tasks |-> "start"]
    /\ attempt = [t \in Tasks |-> 0]
    /\ events = [t \in Tasks |-> <<>>]
    /\ earlier = <<>>

\* The engine is driven through its methods, not by tui_main.
NoTui == tui = [status |-> "none", pc |-> "off"]

\* No function of the planning layer is called on its own, and there is no
\* Menu.
NoUnits ==
    /\ call = [fn |-> "none"]
    /\ menu = [choices |-> <<>>]

\* The engine is not under main().
NoCli ==
    cli = [argv |-> [command |-> "none", provider |-> "none",
                     api_key |-> "None", dry_run |-> FALSE],
           environ |-> "None", pc |-> "off", exitCode |-> -1, stderr |-> "",
           effects |-> {}]

Init ==
    /\ on_progress = "callback"
    /\ log = [t \in {} |-> <<>>]
    /\ Constructed
    /\ NoUnits
    /\ NoTui
    /\ NoCli

\* ------------------------------------------------------ control methods
pause ==
    /\ paused' = TRUE
    /\ UNCHANGED <<cancelled, fields, engine, frontend>>

\* Mutant of resume (C8): it clears both flags.
resume_ClearsCancelled ==
    /\ paused' = FALSE
    /\ cancelled' = FALSE
    /\ UNCHANGED <<fields, engine, frontend>>

resume ==
    /\ paused' = FALSE
    /\ UNCHANGED <<cancelled, fields, engine, frontend>>

\* Mutant of cancel (C9): it also lifts the pause.
cancel_AlsoResumes ==
    /\ cancelled' = TRUE
    /\ paused' = FALSE
    /\ UNCHANGED <<fields, engine, frontend>>

cancel ==
    /\ cancelled' = TRUE
    /\ UNCHANGED <<paused, fields, engine, frontend>>

\* ------------------------------------------------------------ download()
\* download() up to its gather: the semaphore is created with
\* concurrent_requests slots and one task per request is scheduled.
download ==
    /\ callPhase = "idle"
    /\ callPhase' = "running"
    /\ semValue' = concurrent_requests
    /\ UNCHANGED <<paused, cancelled, fields, inputs, files, pc, attempt,
                   events, earlier, log, frontend>>

\* A second download() call with the same request list, on the same
\* downloader and output directory, after the first has returned: a new
\* semaphore and new tasks, and the progress reports are those of this call.
downloadAgain ==
    /\ callPhase = "returned"
    /\ run = 1
    /\ callPhase' = "running"
    /\ semValue' = concurrent_requests
    /\ earlier' = Append(earlier, files)
    /\ pc' = [t \in Tasks |-> "start"]
    /\ attempt' = [t \in Tasks |-> 0]
    /\ events' = [t \in Tasks |-> <<>>]
    /\ UNCHANGED <<paused, cancelled, fields, inputs, files, log, frontend>>

\* Mutant of downloadReturn (C18): gather() completes with the first task
\* that returns.
downloadReturn_FirstTask ==
    /\ callPhase = "running"
    /\ \E t \in Tasks : pc[t] \in Returned
    /\ callPhase' = "returned"
    /\ UNCHANGED <<paused, cancelled, fields, inputs, files, semValue, pc,
                   attempt, events, earlier, log, frontend>>

\* gather() completes when every task has returned.
downloadReturn ==
    /\ callPhase = "running"
    /\ \A t \in Tasks : pc[t] \in Returned
    /\ callPhase' = "returned"
    /\ UNCHANGED <<paused, cancelled, fields, inputs, files, semValue, pc,
                   attempt, events, earlier, log, frontend>>

\* gather() without return_exceptions hands the first exception that leaves
\* a task to download(), which raises it.
downloadRaise ==
    /\ callPhase = "running"
    /\ \E t \in Tasks : pc[t] \in Raised
    /\ callPhase' = "raised"
    /\ UNCHANGED <<paused, cancelled, fields, inputs, files, semValue, pc,
                   attempt, events, earlier, log, frontend>>

\* ----------------------------------------------------- _download_one
\* What one uninterrupted run of a task ends with: its next position, its
\* loop variable, the progress reports made so far, whether the run opened
\* the destination file for writing, and the attempt that ended in the run
\* (none, or one).
Local(p, k, ev, op) == [pc |-> p, att |-> k, ev |-> ev, open |-> op, log |-> <<>>]

\* Attempt k ended with r (the response, or what was raised) and the task
\* then slept s seconds before going on.
Entry(k, r, s) == [attempt |-> k, response |-> r, sleep |-> s]

\* The runs of S, in which the attempt e ended.
Logged(S, e) == {[x EXCEPT !.log = <<e>>] : x \in S}

\* `if pbar: pbar.update(1)` followed by `if on_progress: on_progress(...)`.
PbarAndCallback(outcome, ev) ==
    Append(ev, IF on_progress = "callback" THEN outcome ELSE "pbar")

\* `if on_progress: on_progress(...)` alone.
CallbackOnly(outcome, ev) ==
    IF on_progress = "callback" THEN Append(ev, outcome) ELSE ev

\* A progress report can raise when it calls the caller's callback.
ReportCanRaise == on_progress = "callback"

\* `except Exception` of the outer try: the report of "failed" is made and
\* the task returns False, unless the callback raises in its turn.
OuterHandler(k, ev, op) ==
    {Local(p, k, PbarAndCallback("failed", ev), op) :
        p \in IF ReportCanRaise THEN {"setup_error", "raised_in"}
              ELSE {"setup_error"}}

\* `except Exception` of the attempt: on_progress("failed") and return
\* False; an exception raised by the callback reaches the outer handler.
InnerHandler(k, ev, op) ==
    {Local("error", k, CallbackOnly("failed", ev), op)}
        \cup (IF ReportCanRaise
              THEN OuterHandler(k, Append(ev, "failed"), op)
              ELSE {})

\* The report of outcome made inside the attempt's try (with the progress
\* bar for "success", without it for "failed"), followed by a return; an
\* exception raised by the callback reaches the inner handler.
Emit(outcome, ret, k, ev, op) ==
    LET rep == IF outcome = "success"
               THEN PbarAndCallback(outcome, ev)
               ELSE CallbackOnly(outcome, ev)
    IN  {Local(ret, k, rep, op)}
            \cup (IF ReportCanRaise THEN InnerHandler(k, rep, op) ELSE {})

\* Mutant of AttemptHead (C5): the cancel check before session.get is
\* missing.
AttemptHead_NoCancelCheck(k, ev) ==
    {Local("get", k, ev, FALSE)}
        \cup Logged(InnerHandler(k, ev, FALSE), Entry(k, "raised", 0))

\* After the pause poll of an attempt: the cancel check, then session.get
\* (the URL builder or the client may raise before a request is made: the
\* attempt ends as "raised").
AttemptHead(k, ev) ==
    IF cancelled
    THEN {Local("cancelled_in", k, ev, FALSE)}
    ELSE {Local("get", k, ev, FALSE)}
             \cup Logged(InnerHandler(k, ev, FALSE), Entry(k, "raised", 0))

\* Mutant of LoopTop (C10): the pause poll between attempts is missing.
LoopTop_NoPauseCheck(k, ev) ==
    IF k >= retry_attempts
    THEN {Local("exhausted", k, ev, FALSE)}
    ELSE AttemptHead(k, ev)

\* The head of `for attempt in range(self.retry_attempts)`.
LoopTop(k, ev) ==
    IF k >= retry_attempts
    THEN {Local("exhausted", k, ev, FALSE)}
    ELSE IF paused /\ ~cancelled
         THEN {Local("poll", k, ev, FALSE)}
         ELSE AttemptHead(k, ev)

\* Right after the semaphore is acquired: os.makedirs (which may raise),
\* then the attempt loop.
EnterSection(ev) ==
    OuterHandler(0, ev, FALSE) \cup LoopTop(0, ev)

\* The destination file exists: the report of "skipped" and return True,
\* outside every try (an exception raised by the callback leaves the task).
Skip(ev) ==
    {Local(p, 0, PbarAndCallback("skipped", ev), FALSE) :
        p \in IF ReportCanRaise THEN {"skipped", "raised_pre"} ELSE {"skipped"}}

\* Mutant of PreFlight (C4): the section is entered without waiting for a
\* free slot.
PreFlight_NoSlotWait(t, ev) ==
    IF cancelled
    THEN {Local("cancelled_pre", 0, ev, FALSE)}
    ELSE IF requests[t] \in files
         THEN Skip(ev)
         ELSE EnterSection(ev)

\* Mutant of PreFlight (C11): the existence check is missing.
PreFlight_NoExistenceCheck(t, ev) ==
    IF cancelled
    THEN {Local("cancelled_pre", 0, ev, FALSE)}
    ELSE IF semValue > 0
         THEN EnterSection(ev)
         ELSE {Local("semwait", 0, ev, FALSE)}

\* Mutant of PreFlight (C12): the existence check comes after the slot is
\* acquired.
PreFlight_SlotBeforeExistence(t, ev) ==
    IF cancelled
    THEN {Local("cancelled_pre", 0, ev, FALSE)}
    ELSE IF semValue > 0
         THEN (IF requests[t] \in files THEN Skip(ev) ELSE EnterSection(ev))
         ELSE {Local("semwait", 0, ev, FALSE)}

\* Mutant of PreFlight (C13): the existence check comes before the cancel
\* check.
PreFlight_ExistenceBeforeCancel(t, ev) ==
    IF requests[t] \in files
    THEN Skip(ev)
    ELSE IF cancelled
         THEN {Local("cancelled_pre", 0, ev, FALSE)}
         ELSE IF semValue > 0
              THEN EnterSection(ev)
              ELSE {Local("semwait", 0, ev, FALSE)}

\* After the pre-flight pause poll: cancel check, existence check, then
\* `async with semaphore`.
PreFlight(t, ev) ==
    IF cancelled
    THEN {Local("cancelled_pre", 0, ev, FALSE)}
    ELSE IF requests[t] \in files
         THEN Skip(ev)
         ELSE IF semValue > 0
              THEN EnterSection(ev)
              ELSE {Local("semwait", 0, ev, FALSE)}

\* What an HTTP attempt can end with.
Responses == {"200", "429", "other", "timeout", "exception"}

\* Mutant of AfterResponse (C15): the sleep after a 429 is one second,
\* whatever the attempt.
AfterResponse_ConstantBackoff(r, k, ev) ==
    CASE r = "200" -> Logged({Local("write", k, ev, TRUE)}, Entry(k, r, 0))
      [] r = "429" -> Logged({Local("backoff", k, ev, FALSE)}, Entry(k, r, 1))
      [] r = "other" ->
            Logged(Emit("failed", "http_error", k, ev, FALSE), Entry(k, r, 0))
      [] r = "timeout" ->
            IF k < retry_attempts - 1
            THEN Logged({Local("backoff", k, ev, FALSE)}, Entry(k, r, 1))
            ELSE Logged(LoopTop(k + 1, ev), Entry(k, r, 0))
      [] r = "exception" -> Logged(InnerHandler(k, ev, FALSE), Entry(k, r, 0))

\* Mutant of AfterResponse (C16): a status other than 200 and 429 is
\* retried.
AfterResponse_RetriesOnError(r, k, ev) ==
    CASE r = "200" -> Logged({Local("write", k, ev, TRUE)}, Entry(k, r, 0))
      [] r = "429" -> Logged({Local("backoff", k, ev, FALSE)}, Entry(k, r, 2^k))
      [] r = "other" -> Logged({Local("backoff", k, ev, FALSE)}, Entry(k, r, 0))
      [] r = "timeout" ->
            IF k < retry_attempts - 1
            THEN Logged({Local("backoff", k, ev, FALSE)}, Entry(k, r, 1))
            ELSE Logged(LoopTop(k + 1, ev), Entry(k, r, 0))
      [] r = "exception" -> Logged(InnerHandler(k, ev, FALSE), Entry(k, r, 0))

\* Mutant of AfterResponse (C17): `if attempt < self.retry_attempts - 1` is
\* missing before the sleep of the timeout handler.
AfterResponse_SleepsAfterLastTimeout(r, k, ev) ==
    CASE r = "200" -> Logged({Local("write", k, ev, TRUE)}, Entry(k, r, 0))
      [] r = "429" -> Logged({Local("backoff", k, ev, FALSE)}, Entry(k, r, 2^k))
      [] r = "other" ->
            Logged(Emit("failed", "http_error", k, ev, FALSE), Entry(k, r, 0))
      [] r = "timeout" ->
            Logged({Local("backoff", k, ev, FALSE)}, Entry(k, r, 1))
      [] r = "exception" -> Logged(InnerHandler(k, ev, FALSE), Entry(k, r, 0))

\* The attempt's request has ended with r (for "200": the body is read and
\* the destination file is opened "wb", which creates it); the sleeps are
\* those of lines 105 and 114.
AfterResponse(r, k, ev) ==
    CASE r = "200" -> Logged({Local("write", k, ev, TRUE)}, Entry(k, r, 0))
      [] r = "429" -> Logged({Local("backoff", k, ev, FALSE)}, Entry(k, r, 2^k))
      [] r = "other" ->
            Logged(Emit("failed", "http_error", k, ev, FALSE), Entry(k, r, 0))
      [] r = "timeout" ->
            IF k < retry_attempts - 1
            THEN Logged({Local("backoff", k, ev, FALSE)}, Entry(k, r, 1))
            ELSE Logged(LoopTop(k + 1, ev), Entry(k, r, 0))
      [] r = "exception" -> Logged(InnerHandler(k, ev, FALSE), Entry(k, r, 0))

Holds(p) == IF p \in InSection THEN 1 ELSE 0

\* The effect of one run of task t that ends as r.
Apply(t, r) ==
    /\ pc' = [pc EXCEPT ![t] = r.pc]
    /\ attempt' = [attempt EXCEPT ![t] = IF r.pc \in InSection THEN r.att ELSE 0]
    /\ events' = [events EXCEPT ![t] = r.ev]
    /\ semValue' = semValue + Holds(pc[t]) - Holds(r.pc)
    /\ files' = IF r.open THEN files \cup {requests[t]} ELSE files
    /\ log' = IF t \in traced THEN [log EXCEPT ![t] = @ \o r.log] ELSE log
    /\ UNCHANGED <<paused, cancelled, fields, inputs, callPhase, earlier,
                   frontend>>

Running(t, p) == callPhase = "running" /\ t \in Tasks /\ pc[t] = p

\* First run of the task: the pre-flight pause poll, or straight on.
Start(t) ==
    /\ Running(t, "start")
    /\ \E r \in (IF paused /\ ~cancelled
                 THEN {Local("prepoll", 0, events[t], FALSE)}
                 ELSE PreFlight(t, events[t])) : Apply(t, r)

\* Mutant of PrePoll (C6): the poll loop is `while self.paused`, without
\* the test of cancelled.
PrePoll_IgnoresCancel(t) ==
    /\ Running(t, "prepoll")
    /\ ~paused
    /\ \E r \in PreFlight(t, events[t]) : Apply(t, r)

\* A wake-up of the pre-flight poll that finds the loop condition false (a
\* wake-up that finds it true changes nothing).
PrePoll(t) ==
    /\ Running(t, "prepoll")
    /\ ~(paused /\ ~cancelled)
    /\ \E r \in PreFlight(t, events[t]) : Apply(t, r)

\* A task waiting in semaphore.acquire() gets a slot.
SemWait(t) ==
    /\ Running(t, "semwait")
    /\ semValue > 0
    /\ \E r \in EnterSection(events[t]) : Apply(t, r)

\* A wake-up of the in-loop poll that finds the loop condition false.
Poll(t) ==
    /\ Running(t, "poll")
    /\ ~(paused /\ ~cancelled)
    /\ \E r \in AttemptHead(attempt[t], events[t]) : Apply(t, r)

\* The HTTP attempt ends.
Response(t) ==
    /\ Running(t, "get")
    /\ \E resp \in Responses :
         \E r \in AfterResponse(resp, attempt[t], events[t]) : Apply(t, r)

\* f.write and the close of the file raise, or they end well and so does
\* the politeness delay after them (nothing changes in between):
\* on_progress("success", ...) and return True.
Write(t) ==
    /\ Running(t, "write")
    /\ \E r \in Emit("success", "success", attempt[t], events[t], FALSE)
                  \cup InnerHandler(attempt[t], events[t], FALSE) : Apply(t, r)

\* The sleep after a 429 or a timeout ends: `continue`.
Backoff(t) ==
    /\ Running(t, "backoff")
    /\ \E r \in LoopTop(attempt[t] + 1, events[t]) : Apply(t, r)

TaskStep(t) ==
    \/ Start(t) \/ PrePoll(t) \/ SemWait(t) \/ Poll(t)
    \/ Response(t) \/ Write(t) \/ Backoff(t)

Next ==
    \/ pause
    \/ resume
    \/ cancel
    \/ download
    \/ downloadReturn
    \/ downloadRaise
    \/ \E t \in Tasks : Start(t)
    \/ \E t \in Tasks : PrePoll(t)
    \/ \E t \in Tasks : SemWait(t)
    \/ \E t \in Tasks : Poll(t)
    \/ \E t \in Tasks : Response(t)
    \/ \E t \in Tasks : Write(t)
    \/ \E t \in Tasks : Backoff(t)

Spec == Init /\ [][Next]_vars

\* download(requests) without a callback: the progress bar `pbar` of
\* download() counts instead, and nothing raises out of a request, so
\* download() does not raise.
HeadlessInit ==
    /\ on_progress = "none"
    /\ log = [t \in {} |-> <<>>]
    /\ Constructed
    /\ NoUnits
    /\ NoTui
    /\ NoCli

HeadlessNext ==
    \/ pause
    \/ resume
    \/ cancel
    \/ download
    \/ downloadReturn
    \/ \E t \in Tasks : Start(t)
    \/ \E t \in Tasks : PrePoll(t)
    \/ \E t \in Tasks : SemWait(t)
    \/ \E t \in Tasks : Poll(t)
    \/ \E t \in Tasks : Response(t)
    \/ \E t \in Tasks : Write(t)
    \/ \E t \in Tasks : Backoff(t)

HeadlessSpec == HeadlessInit /\ [][HeadlessNext]_vars

\* The engine used for two download() calls in a row, which the caller may
\* cancel but does not pause.
RerunNext ==
    \/ cancel
    \/ download
    \/ downloadReturn
    \/ downloadRaise
    \/ downloadAgain
    \/ \E t \in Tasks : Start(t)
    \/ \E t \in Tasks : SemWait(t)
    \/ \E t \in Tasks : Response(t)
    \/ \E t \in Tasks : Write(t)
    \/ \E t \in Tasks : Backoff(t)

RerunSpec == Init /\ [][RerunNext]_vars

\* ------------------------------------------------- one request, observed
\* The first request of a call, with either kind of progress report, and
\* the record of its attempts.
TileInit ==
    /\ on_progress \in Modes
    /\ log = [t \in {1} |-> <<>>]
    /\ Constructed
    /\ NoUnits
    /\ Len(requests) >= 1
    /\ NoTui
    /\ NoCli

\* Another request of the call enters `async with semaphore`, or leaves it;
\* nothing else of what the other requests do is looked at here.
SiblingEnters ==
    /\ callPhase = "running"
    /\ semValue > 0
    /\ semValue' = semValue - 1
    /\ UNCHANGED <<paused, cancelled, fields, inputs, files, callPhase, pc,
                   attempt, events, earlier, log, frontend>>

SiblingLeaves ==
    /\ callPhase = "running"
    /\ semValue + Holds(pc[1]) < concurrent_requests
    /\ semValue' = semValue + 1
    /\ UNCHANGED <<paused, cancelled, fields, inputs, files, callPhase, pc,
                   attempt, events, earlier, log, frontend>>

TileNext ==
    \/ pause
    \/ resume
    \/ cancel
    \/ download
    \/ SiblingEnters
    \/ SiblingLeaves
    \/ Start(1)
    \/ PrePoll(1)
    \/ SemWait(1)
    \/ Poll(1)
    \/ Response(1)
    \/ Write(1)
    \/ Backoff(1)

TileSpec == TileInit /\ [][TileNext]_vars

\* ---------------------------------------------- the full-screen front end
\* tui_main (tui.py) from the ProgressScreen on: the downloader is built,
\* download(requests, on_progress=prog.on_progress) is made a task of a new
\* event loop, and the key loop starts.
TuiInit ==
    /\ on_progress = "callback"
    /\ log = [t \in {} |-> <<>>]
    /\ Constructed
    /\ NoUnits
    /\ tui = [status |-> "Running", pc |-> "loop"]
    /\ NoCli

\* task.done()
TaskDone == callPhase \in {"returned", "raised", "aborted"}

\* `ch == ord("q")`
KeyQ ==
    /\ tuiPc = "loop" /\ ~TaskDone
    /\ cancelled' = TRUE
    /\ tui' = [tui EXCEPT !.status = "Cancelling..."]
    /\ UNCHANGED <<paused, fields, engine, cli, units>>

\* `ch == ord("p")`
KeyP ==
    /\ tuiPc = "loop" /\ ~TaskDone
    /\ paused' = ~paused
    /\ tui' = [tui EXCEPT !.status = IF paused THEN "Running" ELSE "Paused"]
    /\ UNCHANGED <<cancelled, fields, engine, cli, units>>

\* `except KeyboardInterrupt`: cancel and leave the key loop.
CtrlC ==
    /\ tuiPc = "loop" /\ ~TaskDone
    /\ cancelled' = TRUE
    /\ tui' = [status |-> "Cancelling (Ctrl+C)...", pc |-> "drain"]
    /\ UNCHANGED <<paused, fields, engine, cli, units>>

\* `while not task.done()` finds the task done.
LoopExit ==
    /\ tuiPc = "loop" /\ TaskDone
    /\ tui' = [tui EXCEPT !.pc = "drain"]
    /\ UNCHANGED <<paused, cancelled, fields, engine, cli, units>>

\* wait_for(task, timeout=5) times out: the task of download() is cancelled
\* by asyncio, and the requests with it, where they are.
DrainTimeout ==
    /\ tuiPc = "drain" /\ ~TaskDone
    /\ callPhase' = "aborted"
    /\ UNCHANGED <<paused, cancelled, fields, inputs, files, semValue, pc,
                   attempt, events, earlier, log, frontend>>

\* The task is done: the final status.
Finish ==
    /\ tuiPc = "drain" /\ TaskDone
    /\ tui' = [status |-> IF cancelled THEN "Cancelled" ELSE "Completed",
               pc |-> "done"]
    /\ UNCHANGED <<paused, cancelled, fields, engine, cli, units>>

\* The keys, and the event loop running the engine between them.
TuiNext ==
    \/ KeyQ
    \/ KeyP
    \/ CtrlC
    \/ LoopExit
    \/ DrainTimeout
    \/ Finish
    \/ download
    \/ downloadReturn
    \/ downloadRaise
    \/ \E t \in Tasks : Start(t)
    \/ \E t \in Tasks : PrePoll(t)
    \/ \E t \in Tasks : SemWait(t)
    \/ \E t \in Tasks : Poll(t)
    \/ \E t \in Tasks : Response(t)
    \/ \E t \in Tasks : Write(t)
    \/ \E t \in Tasks : Backoff(t)

TuiSpec == TuiInit /\ [][TuiNext]_vars

\* ------------------------------------------------------------ batch mode
\* main() of cli.py for the bbox and kml subcommands.  PROVIDERS of
\* providers.py: thunderforest requires an API key and names the variable
\* THUNDERFOREST_API_KEY, osm requires none and names no variable.
ProviderNames == {"thunderforest", "osm"}
requires_api_key(p) == p = "thunderforest"
api_key_env(p) == IF p = "thunderforest" THEN "THUNDERFOREST_API_KEY" ELSE "None"

\* What --api-key, and the environment variable, can hold: nothing, the
\* empty string, or a key.
KeyValues == {"None", "", "key"}

\* Truth value of a Python string or None.
Truthy(v) == v \notin {"None", ""}

\* `args.api_key or (os.getenv(provider.api_key_env) if
\* provider.api_key_env else None)`
api_key ==
    IF Truthy(argv.api_key)
    THEN argv.api_key
    ELSE IF Truthy(api_key_env(argv.provider)) THEN environ ELSE "None"

\* An Optional[int] is the empty set for None and {n} for the integer n.
None == {}
Some(n) == {n}

\* --concurrency: not given (None), or an integer; argparse then stores
\* the default of the option, or the integer.
DefaultConcurrency == 20
ConcurrencyValues == {None, Some(0), Some(1), Some(5)}
parsed_concurrency ==
    IF argv.concurrency = None THEN DefaultConcurrency
    ELSE CHOOSE n \in argv.concurrency : TRUE

\* default_concurrency of the providers.
default_concurrency(p) == IF p = "thunderforest" THEN 20 ELSE 2

\* `args.concurrency if args.concurrency else provider.default_concurrency`
concurrency ==
    IF parsed_concurrency # 0 THEN parsed_concurrency
    ELSE default_concurrency(argv.provider)

\* main([]): no subcommand.  HAS_CURSES of tui.py tells whether `import
\* curses` succeeded on this platform; calls lists the calls of main_tui
\* and _run_wizard so far.
InteractiveRuns ==
    [argv : {[command |-> "none", provider |-> "none", api_key |-> "None",
              dry_run |-> FALSE]},
     environ : KeyValues, pc : {"interactive"}, exitCode : {-1},
     stderr : {""}, effects : {{}}, HAS_CURSES : BOOLEAN, calls : {<<>>}]

\* After parser.parse_args: the subcommand is bbox or kml, or there is
\* none.  No downloader exists yet; the engine variables are left at an
\* arbitrary fixed value.
CliInit ==
    /\ on_progress = "none"
    /\ log = [t \in {} |-> <<>>]
    /\ Constructed
    /\ NoUnits
    /\ requests = <<>>
    /\ concurrent_requests = 1
    /\ NoTui
    /\ cli \in [argv : [command : {"bbox", "kml"}, provider : ProviderNames,
                         api_key : KeyValues, dry_run : BOOLEAN,
                         concurrency : ConcurrencyValues],
                 environ : KeyValues, pc : {"plan"}, exitCode : {-1},
                 stderr : {""}, effects : {{}}]
               \cup InteractiveRuns

\* A step of main() that does the things `done` outside the process and
\* goes on at position p, with the exit code and the stderr text as given.
MainStep(p, code, err, done) ==
    /\ cli' = [cli EXCEPT !.pc = p, !.exitCode = code, !.stderr = err,
                          !.effects = @ \cup done]
    /\ UNCHANGED <<paused, cancelled, fields, engine, tui, units>>

\* The regions (for kml: read from the file) and the request list; either
\* can raise, which ends the process with a traceback.
Plan ==
    /\ mainPc = "plan"
    /\ \/ MainStep("key", -1, "", {})
       \/ MainStep("exit", 1, "traceback", {})

\* Mutant of KeyCheck (C20): the test of the API key is missing.
KeyCheck_NoCheck ==
    /\ mainPc = "key"
    /\ MainStep("run", -1, "", {})

\* `if provider.requires_api_key and not api_key: parser.error(...)`;
\* parser.error writes the message to stderr and exits with status 2.
KeyCheck ==
    /\ mainPc = "key"
    /\ IF requires_api_key(argv.provider) /\ ~Truthy(api_key)
       THEN MainStep("exit", 2,
                     "--api-key or environment variable is required", {})
       ELSE MainStep("run", -1, "", {})

\* --dry-run: "Planned tiles: n" is printed and main() returns 0.
DryRun ==
    /\ mainPc = "run"
    /\ argv.dry_run
    /\ MainStep("exit", 0, "", {"planned"})

\* TileDownloader(args.outdir, ...): the constructor creates the output
\* directory, or raises.
Construct ==
    /\ mainPc = "run"
    /\ ~argv.dry_run
    /\ \/ /\ cli' = [cli EXCEPT !.pc = "download",
                                 !.effects = @ \cup {"TileDownloader", "outdir"}]
          /\ concurrent_requests' = concurrency
          /\ UNCHANGED <<retry_attempts, paused, cancelled, engine, tui, units>>
       \/ MainStep("exit", 1, "traceback", {"TileDownloader"})

\* asyncio.run(downloader.download(requests)), then `return 0`, or the
\* exception that download() raised.
Download ==
    /\ mainPc = "download"
    /\ \/ MainStep("exit", 0, "", {"network"})
       \/ MainStep("exit", 1, "traceback", {"network"})

\* A step of the interactive start that makes the calls `called` and
\* goes on at position p.
InteractiveStep(p, code, err, called) ==
    /\ cli' = [cli EXCEPT !.pc = p, !.exitCode = code, !.stderr = err,
                          !.calls = @ \o called]
    /\ UNCHANGED <<paused, cancelled, fields, engine, tui, units>>

\* `if args.command is None: return _run_interactive()`, which calls
\* main_tui() whatever the platform.
run_interactive ==
    /\ mainPc = "interactive"
    /\ InteractiveStep("main_tui", -1, "", <<"main_tui">>)

\* main_tui(): without curses it calls _run_wizard(dry_run=False); with
\* curses, curses.wrapper(tui_main) returns tui_main's value or raises.
main_tui ==
    /\ mainPc = "main_tui"
    /\ IF ~cli.HAS_CURSES
       THEN InteractiveStep("wizard_in_tui", -1, "", <<"_run_wizard">>)
       ELSE \/ \E r \in {0, 1} : InteractiveStep("exit", r, "", <<>>)
            \/ InteractiveStep("except", -1, "", <<>>)

\* The wizard that main_tui called returns its value, or raises, and the
\* exception leaves main_tui.
WizardInTui ==
    /\ mainPc = "wizard_in_tui"
    /\ \/ \E r \in {0, 1} : InteractiveStep("exit", r, "", <<>>)
       \/ InteractiveStep("except", -1, "", <<>>)

\* `except Exception` of _run_interactive: `return _run_wizard()`.
Fallback ==
    /\ mainPc = "except"
    /\ InteractiveStep("wizard", -1, "", <<"_run_wizard">>)

\* The wizard called by _run_interactive returns its value, or raises.
Wizard ==
    /\ mainPc = "wizard"
    /\ \/ \E r \in {0, 1} : InteractiveStep("exit", r, "", <<>>)
       \/ InteractiveStep("exit", 1, "traceback", <<>>)

CliNext ==
    \/ Plan
    \/ KeyCheck
    \/ DryRun
    \/ Construct
    \/ Download
    \/ run_interactive
    \/ main_tui
    \/ WizardInTui
    \/ Fallback
    \/ Wizard

CliSpec == CliInit /\ [][CliNext]_vars

\* ------------------------------------------------------------ tiling.py
\* Coordinates are whole degrees, inside the range of the Web Mercator
\* projection.
Latitudes == {-70, -30, 20, 60}
Longitudes == {-135, -45, 30, 100}

\* Zoom levels are 0..MaxZoom.
MaxZoom == 2

\* Python's min(a, b) and max(a, b): the first argument, unless the second
\* is smaller (larger).
Min(a, b) == IF b < a THEN b ELSE a
Max(a, b) == IF b > a THEN b ELSE a

\* int(n / d) for d > 0: the quotient is truncated toward zero.
int(n, d) == IF n >= 0 THEN n \div d ELSE -((-n) \div d)

lon2tilex(lon, zoom) == int((lon + 180) * 2^zoom, 360)

\* (1 - log(tan(lat) + 1/cos(lat)) / pi) / 2, in units of 1/65536 and
\* rounded down, for the latitudes of the model.
MercatorY(lat) ==
    CASE lat = -70 -> 50869
      [] lat = -30 -> 38497
      [] lat = 20 -> 29050
      [] lat = 60 -> 19031

lat2tiley(lat, zoom) == int(MercatorY(lat) * 2^zoom, 65536)

\* Mutant of normalize_bbox (C25): the corners are returned as given.
normalize_bbox_AsGiven(south, west, north, east) ==
    <<south, west, north, east>>

normalize_bbox(south, west, north, east) ==
    <<Min(south, north), Min(west, east), Max(south, north), Max(west, east)>>

\* Mutant of bbox_tile_span (C24): start_y is taken from the southern
\* latitude and end_y from the northern one.
bbox_tile_span_SouthFirst(south, west, north, east, zoom) ==
    LET b == normalize_bbox(south, west, north, east)
    IN  <<lon2tilex(b[2], zoom), lon2tilex(b[4], zoom),
          lat2tiley(b[1], zoom), lat2tiley(b[3], zoom)>>

\* <<start_x, end_x, start_y, end_y>>
bbox_tile_span(south, west, north, east, zoom) ==
    LET b == normalize_bbox(south, west, north, east)
    IN  <<lon2tilex(b[2], zoom), lon2tilex(b[4], zoom),
          lat2tiley(b[3], zoom), lat2tiley(b[1], zoom)>>

\* `for y in range(y, end_y + 1): yield (zoom, x, y)`
RECURSIVE YLoop(_, _, _, _)
YLoop(zoom, x, y, end_y) ==
    IF y > end_y
    THEN <<>>
    ELSE <<<<zoom, x, y>>>> \o YLoop(zoom, x, y + 1, end_y)

\* `for x in range(x, end_x + 1)` around the loop over y.
RECURSIVE XLoop(_, _, _, _, _)
XLoop(zoom, x, end_x, start_y, end_y) ==
    IF x > end_x
    THEN <<>>
    ELSE YLoop(zoom, x, start_y, end_y)
             \o XLoop(zoom, x + 1, end_x, start_y, end_y)

\* The tiles the generator yields, in order.
iter_tiles_for_bbox(south, west, north, east, zoom) ==
    LET span == bbox_tile_span(south, west, north, east, zoom)
    IN  XLoop(zoom, span[1], span[2], span[3], span[4])

\* Mutant of count_tiles_for_bbox (C23): the `+ 1` of the width is missing.
RECURSIVE count_tiles_for_bbox_OpenWidth(_, _, _, _, _, _)
count_tiles_for_bbox_OpenWidth(south, west, north, east, min_zoom, max_zoom) ==
    IF min_zoom > max_zoom
    THEN 0
    ELSE LET span == bbox_tile_span(south, west, north, east, min_zoom)
         IN  (span[2] - span[1]) * (span[4] - span[3] + 1)
                 + count_tiles_for_bbox_OpenWidth(south, west, north, east,
                                                  min_zoom + 1, max_zoom)

\* `for zoom in range(min_zoom, max_zoom + 1): total += ...`
RECURSIVE count_tiles_for_bbox(_, _, _, _, _, _)
count_tiles_for_bbox(south, west, north, east, min_zoom, max_zoom) ==
    IF min_zoom > max_zoom
    THEN 0
    ELSE LET span == bbox_tile_span(south, west, north, east, min_zoom)
         IN  (span[2] - span[1] + 1) * (span[4] - span[3] + 1)
                 + count_tiles_for_bbox(south, west, north, east,
                                        min_zoom + 1, max_zoom)

\* regions is the sequence regions.values() of a dict of bounding boxes
\* <<south, west, north, east>>.
RECURSIVE count_tiles_for_regions(_, _, _)
count_tiles_for_regions(regions, min_zoom, max_zoom) ==
    IF regions = <<>>
    THEN 0
    ELSE LET r == Head(regions)
         IN  count_tiles_for_bbox(r[1], r[2], r[3], r[4], min_zoom, max_zoom)
                 + count_tiles_for_regions(Tail(regions), min_zoom, max_zoom)

\* ------------------------------------- _requests_for_regions of cli.py
TileRequest(z, x, y) == [zoom |-> z, x |-> x, y |-> y]

\* `for south, west, north, east in regions.values()` around the tiles of
\* one region at one zoom: the tiles visited, in order.
RECURSIVE RegionLoop(_, _)
RegionLoop(regions, zoom) ==
    IF regions = <<>>
    THEN <<>>
    ELSE LET r == Head(regions)
         IN  iter_tiles_for_bbox(r[1], r[2], r[3], r[4], zoom)
                 \o RegionLoop(Tail(regions), zoom)

\* `for zoom in range(min_zoom, max_zoom + 1)` around the loop over the
\* regions.
RECURSIVE ZoomLoop(_, _, _)
ZoomLoop(regions, zoom, max_zoom) ==
    IF zoom > max_zoom
    THEN <<>>
    ELSE RegionLoop(regions, zoom) \o ZoomLoop(regions, zoom + 1, max_zoom)

\* Mutant of Visit (C22): `<=` stands for `<` in the test of the length.
RECURSIVE Visit_OneMore(_, _, _, _)
Visit_OneMore(tiles, max_tiles, requests_, nofetch) ==
    IF tiles = <<>>
    THEN requests_
    ELSE LET t == Head(tiles)
         IN  IF max_tiles = None \/ \E n \in max_tiles : Len(requests_) <= n
             THEN Visit_OneMore(Tail(tiles), max_tiles,
                                Append(requests_, TileRequest(t[1], t[2], t[3])),
                                nofetch)
             ELSE Visit_OneMore(Tail(tiles), max_tiles, requests_,
                                Append(nofetch, t))

\* The body of the innermost loop for each tile visited, and `return
\* requests` after the last.
RECURSIVE Visit(_, _, _, _)
Visit(tiles, max_tiles, requests_, nofetch) ==
    IF tiles = <<>>
    THEN requests_
    ELSE LET t == Head(tiles)
         IN  IF max_tiles = None \/ \E n \in max_tiles : Len(requests_) < n
             THEN Visit(Tail(tiles), max_tiles,
                        Append(requests_, TileRequest(t[1], t[2], t[3])),
                        nofetch)
             ELSE Visit(Tail(tiles), max_tiles, requests_, Append(nofetch, t))

requests_for_regions(regions, min_zoom, max_zoom, max_tiles) ==
    Visit(ZoomLoop(regions, min_zoom, max_zoom), max_tiles, <<>>, <<>>)

\* _build_requests of tui.py: the same three loops, every tile appended.
build_requests(regions, min_zoom, max_zoom) ==
    LET tiles == ZoomLoop(regions, min_zoom, max_zoom)
    IN  [i \in DOMAIN tiles |-> TileRequest(tiles[i][1], tiles[i][2], tiles[i][3])]

\* ----------------------------------------- the planning layer, by itself
\* The bounding boxes, with the corners in any order.
Boxes == Latitudes \X Longitudes \X Latitudes \X Longitudes

\* A box of several tiles, a point, and a box that overlaps the first and
\* is given with its corners swapped.
SampleBoxes == {<<-30, -45, 20, 30>>, <<20, 30, 20, 30>>, <<60, 100, -70, -45>>}

\* A dict of regions has one region, any box, or up to MaxRegions of the
\* sample boxes.
MaxRegions == 2
RegionDicts ==
    {<<b>> : b \in Boxes}
        \cup UNION {[1..n -> SampleBoxes] : n \in 0..MaxRegions}

\* --max-tiles: None, or a limit up to MaxTiles.
MaxTiles == 3
MaxTilesValues == {None} \cup {Some(n) : n \in 0..MaxTiles}

PlanInit ==
    /\ on_progress = "none"
    /\ log = [t \in {} |-> <<>>]
    /\ Constructed
    /\ requests = <<>>
    /\ concurrent_requests = 1
    /\ NoTui
    /\ NoCli
    /\ menu = [choices |-> <<>>]
    /\ call \in [fn : {"none"}, regions : RegionDicts, min_zoom : 0..MaxZoom,
                 max_zoom : 0..MaxZoom, max_tiles : MaxTilesValues]

\* The function f, called for the region box at the zoom level z (for a
\* function of one bounding box), has returned value.
Returns(f, box, z, value) ==
    /\ call.fn = "none"
    /\ call' = [fn |-> f, regions |-> call.regions,
                min_zoom |-> call.min_zoom, max_zoom |-> call.max_zoom,
                max_tiles |-> call.max_tiles, box |-> box, zoom |-> z,
                result |-> value]
    /\ UNCHANGED <<paused, cancelled, fields, engine, tui, cli, menu>>

CallNormalizeBbox ==
    \E i \in DOMAIN call.regions :
        LET b == call.regions[i]
        IN  Returns("normalize_bbox", b, call.max_zoom,
                    normalize_bbox(b[1], b[2], b[3], b[4]))

CallBboxTileSpan ==
    \E i \in DOMAIN call.regions :
        LET b == call.regions[i]
        IN  Returns("bbox_tile_span", b, call.max_zoom,
                    bbox_tile_span(b[1], b[2], b[3], b[4], call.max_zoom))

CallIterTilesForBbox ==
    \E i \in DOMAIN call.regions :
        LET b == call.regions[i]
        IN  Returns("iter_tiles_for_bbox", b, call.max_zoom,
                    iter_tiles_for_bbox(b[1], b[2], b[3], b[4], call.max_zoom))

CallCountTilesForBbox ==
    \E i \in DOMAIN call.regions :
        LET b == call.regions[i]
        IN  Returns("count_tiles_for_bbox", b, call.max_zoom,
                    count_tiles_for_bbox(b[1], b[2], b[3], b[4],
                                         call.min_zoom, call.max_zoom))

CallCountTilesForRegions ==
    Returns("count_tiles_for_regions", <<>>, call.max_zoom,
            count_tiles_for_regions(call.regions, call.min_zoom,
                                    call.max_zoom))

CallRequestsForRegions ==
    Returns("_requests_for_regions", <<>>, call.max_zoom,
            requests_for_regions(call.regions, call.min_zoom, call.max_zoom,
                                 call.max_tiles))

CallBuildRequests ==
    Returns("_build_requests", <<>>, call.max_zoom,
            build_requests(call.regions, call.min_zoom, call.max_zoom))

\* The planning of main() for bbox and kml, which starts at zoom 1: the
\* request list that a run without --dry-run hands to download(), and the
\* number that the same run with --dry-run prints as "Planned tiles".
CallMain ==
    /\ call.min_zoom = 1
    /\ Returns("main", <<>>, call.max_zoom,
               [requests |-> requests_for_regions(call.regions, 1, call.max_zoom,
                                                  call.max_tiles),
                total |-> count_tiles_for_regions(call.regions, 1,
                                                  call.max_zoom)])

PlanNext ==
    \/ CallNormalizeBbox
    \/ CallBboxTileSpan
    \/ CallIterTilesForBbox
    \/ CallCountTilesForBbox
    \/ CallCountTilesForRegions
    \/ CallRequestsForRegions
    \/ CallBuildRequests
    \/ CallMain

PlanSpec == PlanInit /\ [][PlanNext]_vars

\* -------------------------------------------------------- kml_regions.py
\* A string is a sequence of characters.
Digit == <<"0", "1", "2", "3", "4", "5", "6", "7", "8", "9">>

\* str(n) for n >= 0.
RECURSIVE Decimal(_)
Decimal(n) ==
    IF n < 10 THEN <<Digit[n + 1]>> ELSE Decimal(n \div 10) \o <<Digit[(n % 10) + 1]>>

\* s, with zeros put before it up to the width w.
RECURSIVE ZeroPadded(_, _)
ZeroPadded(str, w) == IF Len(str) >= w THEN str ELSE ZeroPadded(<<"0">> \o str, w)

\* f"{base}_{coord_idx:06}"
VertexName(base, coord_idx) == base \o <<"_">> \o ZeroPadded(Decimal(coord_idx), 6)

expand_gps(lat, lon, latrgn, lonrgn) ==
    <<lat - latrgn, lon - lonrgn, lat + latrgn, lon + lonrgn>>

\* `resdict[name] = box` on a dict kept as the sequence of its items, in
\* insertion order: the value of an existing key is replaced where it is.
SetItem(resdict, name, box) ==
    IF \E i \in DOMAIN resdict : resdict[i].key = name
    THEN [i \in DOMAIN resdict |->
             IF resdict[i].key = name THEN [key |-> name, value |-> box]
             ELSE resdict[i]]
    ELSE Append(resdict, [key |-> name, value |-> box])

\* `p.name or "point"`, `p.name or "path"`: a missing name is None.
NameOr(name, default) == IF name = None \/ name = Some(<<>>) THEN default
                         ELSE CHOOSE n \in name : TRUE

\* `for coord in coords2.coords` of one LineString, from the index
\* coord_idx on.
RECURSIVE VertexLoop(_, _, _, _, _, _)
VertexLoop(resdict, base, coords, coord_idx, latrgn, lonrgn) ==
    IF coords = <<>>
    THEN resdict
    ELSE LET coord == Head(coords)
         IN  VertexLoop(SetItem(resdict, VertexName(base, coord_idx),
                                expand_gps(coord[2], coord[1], latrgn, lonrgn)),
                        base, Tail(coords), coord_idx + 1, latrgn, lonrgn)

\* `for lstr_obj in lstrs` of one placemark; coord_idx goes on counting
\* from one LineString to the next.
RECURSIVE LineLoop(_, _, _, _, _, _)
LineLoop(resdict, base, lstrs, coord_idx, latrgn, lonrgn) ==
    IF lstrs = <<>>
    THEN resdict
    ELSE LineLoop(VertexLoop(resdict, base, Head(lstrs), coord_idx,
                             latrgn, lonrgn),
                  base, Tail(lstrs), coord_idx + Len(Head(lstrs)),
                  latrgn, lonrgn)

\* `for p_obj in pmarks`: a placemark has a name (or None), its Points
\* pts, each the sequence of its coordinates (empty when it has none), and
\* its LineStrings lstrs, each the sequence of its vertices; a coordinate
\* is <<lon, lat>>.
RECURSIVE PlacemarkLoop(_, _, _, _)
PlacemarkLoop(resdict, pmarks, latrgn, lonrgn) ==
    IF pmarks = <<>>
    THEN resdict
    ELSE LET p == Head(pmarks)
             next ==
                 IF Len(p.pts) = 1
                 THEN IF p.pts[1] = <<>>
                      THEN resdict
                      ELSE SetItem(resdict, NameOr(p.name, <<"p", "o", "i", "n", "t">>),
                                   expand_gps(p.pts[1][1][2], p.pts[1][1][1],
                                              latrgn, lonrgn))
                 ELSE LineLoop(resdict, NameOr(p.name, <<"p", "a", "t", "h">>),
                               p.lstrs, 0, latrgn, lonrgn)
         IN  PlacemarkLoop(next, Tail(pmarks), latrgn, lonrgn)

\* The dict returned, as the sequence of its items.
kml_to_regions(pmarks, latrgn, lonrgn) == PlacemarkLoop(<<>>, pmarks, latrgn, lonrgn)

\* The placemarks of a file: up to MaxPlacemarks, each a point placemark
\* (with or without coordinates) or a path of up to MaxVertices vertices,
\* without a name or with one of two names.
MaxPlacemarks == 2
MaxVertices == 2
Coords == {<<30, 20>>, <<100, 60>>}
PlacemarkNames == {None, Some(<<"a">>), Some(<<"b">>)}
Placemarks ==
    [name : PlacemarkNames, pts : {<<<<>>>>} \cup {<<<<c>>>> : c \in Coords},
     lstrs : {<<>>}]
        \cup [name : PlacemarkNames, pts : {<<>>},
              lstrs : {<<l>> : l \in UNION {[1..n -> Coords] : n \in 0..MaxVertices}}]

KmlInit ==
    /\ on_progress = "none"
    /\ log = [t \in {} |-> <<>>]
    /\ Constructed
    /\ requests = <<>>
    /\ concurrent_requests = 1
    /\ NoTui
    /\ NoCli
    /\ menu = [choices |-> <<>>]
    /\ call \in [fn : {"none"},
                 pmarks : UNION {[1..n -> Placemarks] : n \in 0..MaxPlacemarks}]

\* kml_to_regions(kmlfile, latrgn, lonrgn) of a file that parses, with a
\* margin of one degree.
CallKmlToRegions ==
    /\ call.fn = "none"
    /\ call' = [fn |-> "kml_to_regions", pmarks |-> call.pmarks,
                result |-> kml_to_regions(call.pmarks, 1, 1)]
    /\ UNCHANGED <<paused, cancelled, fields, engine, tui, cli, menu>>

KmlSpec == KmlInit /\ [][CallKmlToRegions]_vars

\* ----------------------------------------------------------- tui.py, Menu
\* A label is the sequence of its parts between " / ": the first item of
\* a states menu is <<"[All states/regions]">>, the others are
\* <<country, state>> (tui.py:467, 470).
Countries == <<"X", "Y">>
StateName == <<"a", "b", "c">>
AllOf(country) == IF country = "X" THEN "All of X" ELSE "All of Y"

\* `" / All of " in choice`
ContainsAllOf(choice) ==
    \E i \in 2..Len(choice) : \E c \in 1..Len(Countries) : choice[i] = AllOf(Countries[c])

\* `c.startswith(f"{country} / ")`
StartsWith(c, country) == Len(c) > 1 /\ c[1] = country

\* self.choices[idx], idx counted from 0.
At(choices, idx) == choices[idx + 1]

\* all_country_items of the item idx: the indices of the other items of
\* its country.
all_country_items(choices, idx) ==
    {i \in 0..(Len(choices) - 1) :
        /\ StartsWith(At(choices, i), At(choices, idx)[1])
        /\ At(choices, i) # At(choices, idx)}

\* self.selected.get(i, False); the dict is a function on its keys.
get(selected, i) == IF i \in DOMAIN selected THEN selected[i] ELSE FALSE

\* `self.selected[i] = v` for every i of keys.
Store(selected, keys, v) ==
    [i \in DOMAIN selected \cup keys |-> IF i \in keys THEN v ELSE selected[i]]

\* An 'All of X' item shown from its own flag only.
get_display_selected_OwnFlag(m, idx) == get(m.selected, idx)

get_display_selected(m, idx) ==
    IF ~m.multi
    THEN get(m.selected, idx)
    ELSE IF m.all_toggle /\ idx = 0
    THEN \A i \in 1..(Len(m.choices) - 1) : get(m.selected, i)
    ELSE IF /\ m.hierarchical_all
            /\ idx > 0
            /\ ContainsAllOf(At(m.choices, idx))
            /\ all_country_items(m.choices, idx) # {}
    THEN \A i \in all_country_items(m.choices, idx) : get(m.selected, i)
    ELSE get(m.selected, idx)

\* The states menus of a catalog of up to two countries, each with up to
\* MaxStates states and with or without its 'All of' entry, which
\* regions.py:114 puts after the states.
MaxStates == 1
CountryLabels(country, states, all) ==
    [i \in 1..states |-> <<country, StateName[i]>>]
        \o (IF all THEN <<<<country, AllOf(country)>>>> ELSE <<>>)
StateLabels ==
    {<<<<"[All states/regions]">>>> \o CountryLabels("X", sx, ax) \o CountryLabels("Y", sy, ay) :
        sx \in 0..MaxStates, sy \in 0..MaxStates, ax \in BOOLEAN, ay \in BOOLEAN}
        \ {<<<<"[All states/regions]">>>>}

\* multi, all_toggle, hierarchical_all, allow_back of the menus of
\* tui_main (continents, countries, states, provider and style) and of
\* test_hierarchical_menu_logic.
MenuKinds ==
    {<<TRUE, TRUE, FALSE, FALSE>>, <<TRUE, TRUE, FALSE, TRUE>>,
     <<TRUE, TRUE, TRUE, TRUE>>, <<FALSE, FALSE, FALSE, TRUE>>,
     <<TRUE, TRUE, TRUE, FALSE>>}

\* Heights of the screen, stdscr.getmaxyx()[0]: the menu scrolls on the
\* first and fits on the second.
ScreenHeights == {5, 24}

\* Menu.__init__, for a screen of max_y lines.
NewMenu(choices, kind, max_y) ==
    [choices |-> choices, multi |-> kind[1], all_toggle |-> kind[2],
     hierarchical_all |-> kind[3], allow_back |-> kind[4],
     current |-> 0, selected |-> [i \in {} |-> FALSE], top |-> 0,
     max_y |-> max_y, returned |-> [kind |-> "running"]]

MenuInit ==
    /\ on_progress = "none"
    /\ log = [t \in {} |-> <<>>]
    /\ Constructed
    /\ requests = <<>>
    /\ concurrent_requests = 1
    /\ NoTui
    /\ NoCli
    /\ call = [fn |-> "none"]
    /\ menu \in {NewMenu(c, k, h) : c \in StateLabels, k \in MenuKinds, h \in ScreenHeights}

visible == Max(1, menu.max_y - 3)
half == Max(1, visible \div 2)

\* draw(), which run() calls before it reads the next key, clamps top.
Drawn(top) == Max(0, Min(top, Max(0, Len(menu.choices) - visible)))

\* The scroll offset that keeps the cursor within the half-page window.
desired_top(current) ==
    Min(Max(0, current - half), Max(0, Len(menu.choices) - visible))

InRun == menu.choices # <<>> /\ menu.returned.kind = "running"

MoveTo(current) ==
    /\ menu' = [menu EXCEPT !.current = current, !.top = Drawn(desired_top(current))]
    /\ UNCHANGED <<paused, cancelled, fields, engine, tui, cli, call>>

KeyDown ==
    /\ InRun
    /\ MoveTo(IF menu.current < Len(menu.choices) - 1 THEN menu.current + 1
              ELSE menu.current)

KeyUp ==
    /\ InRun
    /\ MoveTo(IF menu.current > 0 THEN menu.current - 1 ELSE menu.current)

\* Page Down without the `min(len(self.choices) - 1, ...)`.
PageDown_PastTheEnd ==
    /\ InRun
    /\ MoveTo(menu.current + visible)

PageDown ==
    /\ InRun
    /\ MoveTo(Min(Len(menu.choices) - 1, menu.current + visible))

PageUp ==
    /\ InRun
    /\ MoveTo(Max(0, menu.current - visible))

\* The dict self.selected after SPACE in the multi-select menu m.
space_selected(m) ==
    LET n == Len(m.choices)
        sel == m.selected
        cur == m.current
        toggled == Store(sel, {cur}, ~get(sel, cur))
        items == all_country_items(m.choices, cur)
    IN  IF m.all_toggle /\ cur = 0 /\ n > 1
        THEN Store(sel, 1..(n - 1), ~(\A i \in 1..(n - 1) : get(sel, i)))
        ELSE IF m.hierarchical_all /\ cur > 0
        THEN IF ContainsAllOf(At(m.choices, cur))
             THEN Store(sel, items, ~(\A i \in items : get(sel, i)))
             ELSE toggled
        ELSE toggled

\* SPACE in a multi-select menu; in another menu the key does nothing.
Space ==
    /\ InRun
    /\ menu.multi
    /\ menu' = [menu EXCEPT !.top = Drawn(menu.top),
                            !.selected = space_selected(menu)]
    /\ UNCHANGED <<paused, cancelled, fields, engine, tui, cli, call>>

\* ENTER: the list returned holds each index once; the order of its
\* items, that of the dict, is not kept.
Enter ==
    /\ InRun
    /\ LET sel == IF menu.multi /\ DOMAIN menu.selected = {}
                  THEN Store(menu.selected, {menu.current}, TRUE)
                  ELSE menu.selected
       IN  menu' = [menu EXCEPT
                      !.selected = sel,
                      !.returned =
                        [kind |-> "list",
                         items |-> IF menu.multi
                                   THEN {i \in DOMAIN sel : sel[i]}
                                   ELSE {menu.current}]]
    /\ UNCHANGED <<paused, cancelled, fields, engine, tui, cli, call>>

\* 'b' where the menu allows it; elsewhere the key does nothing.
Back ==
    /\ InRun
    /\ menu.allow_back
    /\ menu' = [menu EXCEPT !.returned = [kind |-> "list", items |-> {-1}]]
    /\ UNCHANGED <<paused, cancelled, fields, engine, tui, cli, call>>

\* 'q' or ESC.
Quit ==
    /\ InRun
    /\ menu' = [menu EXCEPT !.returned = [kind |-> "None"]]
    /\ UNCHANGED <<paused, cancelled, fields, engine, tui, cli, call>>

MenuNext ==
    \/ KeyDown
    \/ KeyUp
    \/ PageDown
    \/ PageUp
    \/ Space
    \/ Enter
    \/ Back
    \/ Quit

MenuSpec == MenuInit /\ [][MenuNext]_vars

----------------------------------------------------------------------------
\* The selection flow of tui_main: one Menu per level, then the input
\* screen, then the confirmation screen.  tui holds the locals of tui_main
\* and its position pc: a level while the Menu of that level is open, then
\* "params", "confirm", "download"; "returned" with the value in code, or
\* "raised".  confirmed records the levels whose Menu, as last shown, was
\* left with a selection.

MenuLevels == <<"continents", "countries", "states", "provider", "style">>

\* load_region_catalog(): continent E with country X, continent F with
\* country Y; X has MaxStates regions and 'All of X', Y only 'All of Y'.
continents == <<"E", "F">>
countries_of(cont) == IF cont = "E" THEN <<"X">> ELSE <<"Y">>
states_of(country) ==
    IF country = "X" THEN CountryLabels("X", MaxStates, TRUE)
    ELSE CountryLabels("Y", 0, TRUE)

\* PROVIDERS, in the order of the dict, and Provider.styles.
providers == <<"thunderforest", "osm">>
styles(p) ==
    IF p = "thunderforest"
    THEN <<"outdoors", "mobile-atlas", "cycle", "transport", "landscape",
           "transport-dark", "spinal-map", "pioneer", "neighbourhood", "atlas">>
    ELSE <<>>
default_style(p) == IF p = "thunderforest" THEN "neighbourhood" ELSE "None"

\* `items if 0 in sel else [items[i - 1] for i in sel]`, the picked items
\* taken in the order of the list (the order of the dict is not kept).
Picked(items, sel) ==
    LET F[i \in 0..Len(items)] ==
            IF i = 0 THEN <<>>
            ELSE IF 0 \in sel \/ i \in sel THEN Append(F[i - 1], items[i])
            ELSE F[i - 1]
    IN  F[Len(items)]

\* The lists of a sequence of lists, one after the other.
RECURSIVE Chain(_)
Chain(lists) == IF lists = <<>> THEN <<>> ELSE Head(lists) \o Chain(Tail(lists))

Titled(items) == [i \in 1..Len(items) |-> <<items[i]>>]

\* country_items: (continent, country) for the chosen continents.
country_items(selected_continents) ==
    Chain([i \in 1..Len(selected_continents) |->
             LET cont == selected_continents[i]
             IN  [j \in 1..Len(countries_of(cont)) |-> <<cont, countries_of(cont)[j]>>]])

\* state_items: the labels 'country / state' of the chosen countries.
state_items(selected_pairs) ==
    Chain([i \in 1..Len(selected_pairs) |-> states_of(selected_pairs[i][2])])

\* The choices of the Menu of a level, for the locals t of tui_main.
choices_of(level, t) ==
    CASE level = "continents" -> <<<<"[All continents]">>>> \o Titled(continents)
      [] level = "countries" ->
            <<<<"[All countries]">>>> \o country_items(t.selected_continents)
      [] level = "states" ->
            <<<<"[All states/regions]">>>> \o state_items(t.selected_pairs)
      [] level = "provider" -> Titled(providers)
      [] level = "style" -> Titled(styles(t.provider))

\* multi, all_toggle, hierarchical_all, allow_back of the Menu of a level.
kind_of(level) ==
    CASE level = "continents" -> <<TRUE, TRUE, FALSE, FALSE>>
      [] level = "countries" -> <<TRUE, TRUE, FALSE, TRUE>>
      [] level = "states" -> <<TRUE, TRUE, TRUE, TRUE>>
      [] level = "provider" -> <<FALSE, FALSE, FALSE, TRUE>>
      [] level = "style" -> <<FALSE, FALSE, FALSE, TRUE>>

\* The loop that `break` at a level and `continue` after it lead to.
Above_Outermost(level) == "continents"

Above(level) ==
    CASE level = "countries" -> "continents"
      [] level = "states" -> "countries"
      [] level = "provider" -> "states"
      [] level = "style" -> "provider"

\* What follows a selection at a level: the next Menu, the input screen
\* when there is no further level, or `return 1` for an empty list.
Below(level, t) ==
    CASE level = "continents" ->
            IF country_items(t.selected_continents) = <<>> THEN "returned" ELSE "countries"
      [] level = "countries" ->
            IF state_items(t.selected_pairs) = <<>> THEN "returned" ELSE "states"
      [] level = "states" -> "provider"
      [] level = "provider" -> IF styles(t.provider) # <<>> THEN "style" ELSE "params"
      [] level = "style" -> "params"

\* The locals of tui_main after the selection sel at a level.
Chosen(level, t, sel) ==
    CASE level = "continents" ->
            [t EXCEPT !.selected_continents = Picked(continents, sel)]
      [] level = "countries" ->
            [t EXCEPT !.selected_pairs =
                        Picked(country_items(t.selected_continents), sel)]
      [] level = "states" ->
            [t EXCEPT !.regions =
                        LET items == Picked(state_items(t.selected_pairs), sel)
                        IN  {items[i] : i \in 1..Len(items)}]
      [] level = "provider" ->
            LET p == providers[(CHOOSE i \in sel : TRUE) + 1]
            IN  [t EXCEPT !.provider = p, !.style = default_style(p)]
      [] level = "style" ->
            [t EXCEPT !.style = styles(t.provider)[(CHOOSE i \in sel : TRUE) + 1]]

FlowInit ==
    /\ on_progress = "none"
    /\ log = [t \in {} |-> <<>>]
    /\ Constructed
    /\ requests = <<>>
    /\ concurrent_requests = 1
    /\ NoCli
    /\ call = [fn |-> "none"]
    /\ \E h \in ScreenHeights :
          /\ tui = [status |-> "none", pc |-> "continents", max_y |-> h,
                    selected_continents |-> <<>>, selected_pairs |-> <<>>,
                    regions |-> {}, provider |-> "none", style |-> "None",
                    confirmed |-> {}, code |-> -1, downloader |-> FALSE]
          /\ menu = NewMenu(choices_of("continents", tui), kind_of("continents"), h)

InMenu == tui.pc \in {MenuLevels[i] : i \in 1..Len(MenuLevels)}

\* Menu.run() returned [-1]: `break`, then `continue` in the loop around.
WentBack ==
    /\ InMenu
    /\ menu.returned.kind = "list" /\ menu.returned.items = {-1}
    /\ LET level == Above(tui.pc)
       IN  /\ tui' = [tui EXCEPT !.pc = level, !.confirmed = @ \ {level}]
           /\ menu' = NewMenu(choices_of(level, tui), kind_of(level), tui.max_y)
    /\ UNCHANGED <<paused, cancelled, fields, engine, cli, call>>

\* Menu.run() returned None or an empty list: `if not sel: return 1`.
Ended ==
    /\ InMenu
    /\ \/ menu.returned.kind = "None"
       \/ menu.returned.kind = "list" /\ menu.returned.items = {}
    /\ tui' = [tui EXCEPT !.pc = "returned", !.code = 1]
    /\ UNCHANGED <<paused, cancelled, fields, engine, cli, call, menu>>

\* Menu.run() returned a selection: the locals of the level are set and
\* the flow goes on below it.
Selected ==
    /\ InMenu
    /\ menu.returned.kind = "list"
    /\ menu.returned.items \notin {{}, {-1}}
    /\ LET t == Chosen(tui.pc, tui, menu.returned.items)
           next == Below(tui.pc, t)
       IN  IF next = "returned"
           THEN /\ tui' = [t EXCEPT !.pc = "returned", !.code = 1]
                /\ UNCHANGED menu
           ELSE /\ tui' = [t EXCEPT !.pc = next, !.confirmed = @ \cup {tui.pc}]
                /\ IF next = "params"
                   THEN UNCHANGED menu
                   ELSE menu' = NewMenu(choices_of(next, t), kind_of(next), tui.max_y)
    /\ UNCHANGED <<paused, cancelled, fields, engine, cli, call>>

\* The input screen: API key, max zoom, output directory, concurrency.
\* int() of a text that is no number raises ValueError.
Params ==
    /\ tui.pc = "params"
    /\ \E numbers \in BOOLEAN :
          tui' = [tui EXCEPT !.pc = IF numbers THEN "confirm" ELSE "raised"]
    /\ UNCHANGED <<paused, cancelled, fields, engine, cli, call, menu>>

\* "Press ENTER to start, q to cancel": ENTER goes on to the
\* ProgressScreen and the TileDownloader.
ConfirmEnter ==
    /\ tui.pc = "confirm"
    /\ tui' = [tui EXCEPT !.pc = "download", !.downloader = TRUE]
    /\ UNCHANGED <<paused, cancelled, fields, engine, cli, call, menu>>

ConfirmQuit ==
    /\ tui.pc = "confirm"
    /\ tui' = [tui EXCEPT !.pc = "returned", !.code = 0]
    /\ UNCHANGED <<paused, cancelled, fields, engine, cli, call, menu>>

FlowNext ==
    \/ KeyDown
    \/ KeyUp
    \/ PageDown
    \/ PageUp
    \/ Space
    \/ Enter
    \/ Back
    \/ Quit
    \/ WentBack
    \/ Ended
    \/ Selected
    \/ Params
    \/ ConfirmEnter
    \/ ConfirmQuit

FlowSpec == FlowInit /\ [][FlowNext]_vars

TypeOK ==
    /\ mainPc = "off" => concurrent_requests \in ConcurrencyLevels
    /\ retry_attempts = DefaultRetryAttempts
    /\ paused \in BOOLEAN /\ cancelled \in BOOLEAN
    /\ requests \in RequestLists
    /\ on_progress \in Modes
    /\ files \subseteq Paths
    /\ callPhase \in {"idle", "running", "returned", "raised", "aborted"}
    /\ semValue \in 0..concurrent_requests
    /\ semValue + Cardinality({t \in Tasks : pc[t] \in InSection})
           <= concurrent_requests
    /\ pc \in [Tasks -> {"start", "prepoll", "semwait"} \cup InSection \cup Terminal]
    /\ attempt \in [Tasks -> 0..retry_attempts]
    /\ Len(earlier) <= 1
    /\ \A i \in DOMAIN earlier : earlier[i] \subseteq Paths
    /\ traced \subseteq Tasks
    /\ status \in {"none", "Running", "Paused", "Cancelling...",
                    "Cancelling (Ctrl+C)...", "Completed", "Cancelled"}
    /\ tuiPc \in {"off", "loop", "drain", "done", "continents", "countries",
                  "states", "provider", "style", "params", "confirm",
                  "download", "returned", "raised"}
    /\ mainPc \in {"off", "plan", "key", "run", "download", "exit", "interactive",
                   "main_tui", "wizard_in_tui", "except", "wizard"}
    /\ exitCode \in -1..2
    /\ effects \subseteq {"TileDownloader", "outdir", "network", "planned"}

\* The event loop runs every task that can run (timers expire, and every
\* network or file operation is taken to end), and resumes download() once
\* gather() has its result.  Nothing obliges the front end to call pause(),
\* resume() or cancel().
FairSpec ==
    /\ Spec
    /\ \A t \in TaskIds : WF_vars(TaskStep(t))
    /\ WF_vars(downloadReturn)
    /\ WF_vars(downloadRaise)

\* A front end that calls resume() after every pause(): the engine is never
\* left paused for ever.
ResumingSpec == FairSpec /\ WF_vars(resume)

\* ------------------------------------------------------------ properties
\* The on_progress callback raised during the processing of request t.
CallbackRaised(t) == Len(events[t]) > 1 \/ pc[t] \in Raised

\* Task t starts an HTTP attempt in this step.
NewAttempt(t) == pc'[t] = "get" /\ pc[t] # "get"

\* Task t runs its existence check in this step.
ExistenceChecked(t) ==
    /\ pc[t] \in {"start", "prepoll"}
    /\ pc'[t] \notin {"start", "prepoll", "cancelled_pre"}

\* Task t has written its destination file, as far as the state shows it.
Writer(t) == pc[t] = "write" \/ (Len(events[t]) > 0 /\ events[t][1] = "success")

\* C1: every request that entered the semaphore-guarded section and was not
\* abandoned on cancel has emitted exactly one progress event when it ends
\* (the callback returning normally), and a request that used up all its
\* attempts on 429 responses and timeouts has emitted "failed".
C1_ExactlyOneTerminalEvent ==
    \A t \in Tasks :
        (pc[t] \in LeftSection \ {"cancelled_in"} /\ ~CallbackRaised(t)) =>
            /\ Len(events[t]) = 1
            /\ (pc[t] = "exhausted" => events[t] = <<"failed">>)

\* C2: on_progress is called at most once per request, whatever the attempts
\* end with and also when the callback raises, and a request abandoned at
\* the pre-flight cancel check has no event.
C2_AtMostOneEvent ==
    \A t \in Tasks :
        /\ Len(events[t]) <= 1
        /\ (pc[t] = "cancelled_pre" => events[t] = <<>>)

\* C3: with concurrent_requests > 1, no two requests for the same coordinate
\* both write the destination file.
C3_AtMostOneWriter ==
    concurrent_requests > 1 =>
        \A t1, t2 \in Tasks :
            (t1 # t2 /\ requests[t1] = requests[t2]) =>
                ~(Writer(t1) /\ Writer(t2))

\* C4: at most concurrent_requests requests are inside the section guarded
\* by the semaphore.
C4_BoundedConcurrency ==
    Cardinality({t \in Tasks : pc[t] \in InSection}) <= concurrent_requests

\* C4 witness: every slot is taken and a request is queued behind them.
C4_Witness ==
    /\ Cardinality({t \in Tasks : pc[t] \in InSection}) = concurrent_requests
    /\ \E t \in Tasks : pc[t] = "semwait"

\* C5: once cancelled is set no request starts an HTTP attempt, and no file
\* on disk is ever removed.
C5_NoAttemptAfterCancel ==
    [][/\ cancelled => \A t \in Tasks : ~NewAttempt(t)
       /\ files \subseteq files']_vars

\* C5 witness: after a cancel, one request has written its file, which is on
\* disk, and another was abandoned inside the section instead of fetching.
C5_Witness ==
    /\ cancelled
    /\ \E t1, t2 \in Tasks :
         /\ pc[t1] = "success" /\ requests[t1] \in files
         /\ pc[t2] = "cancelled_in"

C7_NoSlotWhilePolling ==
    \A t \in Tasks : (pc[t] \in {"prepoll", "poll"}) => Holds(pc[t]) = 0

\* C8: cancelled starts false and, once true, stays true.
C8_CancelledMonotonic ==
    ~cancelled /\ [][cancelled => cancelled']_vars

\* C8 witness: cancelled is still set after the call has ended and pause()
\* has been called.
C8_Witness ==
    cancelled /\ paused /\ callPhase \in {"returned", "raised"}

\* C9: pause() and resume() set paused and leave everything else alone,
\* cancel() sets cancelled and leaves everything else alone, and no step of
\* download() or of a task writes a flag: a step either leaves the fields
\* and the engine as they are, and then it changes at most one flag, the
\* one its method sets, or it changes neither flag.
C9_ControlFrame ==
    [][IF UNCHANGED <<fields, engine>>
       THEN /\ pause => (paused' /\ UNCHANGED cancelled)
            /\ resume => (~paused' /\ UNCHANGED cancelled)
            /\ cancel => (cancelled' /\ UNCHANGED paused)
            /\ UNCHANGED paused \/ UNCHANGED cancelled
       ELSE UNCHANGED <<paused, cancelled>>]_vars

\* C9 witness: all three methods have been called while requests were in
\* flight.
C9_Witness ==
    /\ paused /\ cancelled /\ callPhase = "running"
    /\ \E t \in Tasks : pc[t] \in InSection

\* C10: while paused and not cancelled no request starts an HTTP attempt,
\* runs its existence check or emits "skipped", and a request waiting in a
\* pause poll stays there.
C10_PausedBlocksWork ==
    [][\A t \in Tasks :
         /\ (NewAttempt(t) \/ ExistenceChecked(t)) => ~paused
         /\ (paused /\ ~cancelled) =>
              /\ events'[t] # Append(events[t], "skipped")
              /\ (pc[t] \in {"prepoll", "poll"} => pc'[t] = pc[t])]_vars

\* C10 witness: paused, not cancelled, one request waits in the pre-flight
\* poll and another in the poll between attempts.
C10_Witness ==
    /\ paused /\ ~cancelled
    /\ \E t1, t2 \in Tasks : pc[t1] = "prepoll" /\ pc[t2] = "poll"

\* C11 (as stated): a second download() over the same output directory and
\* request list leaves the files on disk as the first call left them, makes
\* no HTTP request, and has reported every tile as "skipped" when it returns.
C11_SecondRunSkipsAll ==
    run = 2 =>
        /\ files = files1
        /\ \A t \in Tasks : pc[t] # "get"
        /\ callPhase = "returned" => \A t \in Tasks : events[t] = <<"skipped">>

\* C11 (amended): if the first call left every requested tile on disk, a
\* second download() leaves the files as they were, lets no request reach
\* the semaphore or an HTTP attempt, and, unless the caller cancelled, has
\* reported every tile as "skipped" when it returns.
C11_SecondRunSkipsWhatIsOnDisk ==
    (run = 2 /\ \A t \in Tasks : requests[t] \in files1) =>
        /\ files = files1
        /\ \A t \in Tasks : pc[t] \notin InSection \cup {"semwait"}
        /\ (callPhase = "returned" /\ ~cancelled) =>
               \A t \in Tasks : events[t] = <<"skipped">>

\* C11 witness: the second call has returned, not cancelled, over a full
\* list of distinct tiles that the first call left on disk.
C11_Witness ==
    /\ run = 2 /\ callPhase = "returned" /\ ~cancelled
    /\ Len(requests) = NumRequests
    /\ Cardinality(files1) = NumRequests
    /\ \A t \in Tasks : requests[t] \in files1 /\ events[t] = <<"skipped">>

\* C12: a request whose destination file exists when its existence check
\* runs (the engine not cancelled) makes no HTTP attempt, takes no slot of
\* the semaphore, leaves the files alone and makes exactly one report,
\* "skipped" to the callback or one update of the progress bar; it returns
\* True, unless the report was a call of the callback and that call raised.
C12_ExistingFileIsSkipped ==
    [][\A t \in Tasks :
         (ExistenceChecked(t) /\ requests[t] \in files) =>
             /\ pc'[t] \in {"skipped", "raised_pre"}
             /\ pc'[t] = "raised_pre" => on_progress = "callback"
             /\ events'[t] =
                    <<IF on_progress = "callback" THEN "skipped" ELSE "pbar">>
             /\ semValue' = semValue
             /\ files' = files
             /\ log' = log]_vars

\* C12 witness: in counter mode a request was skipped, with one update of
\* the progress bar, while every slot of the semaphore was taken.
C12_Witness ==
    /\ callPhase = "running" /\ semValue = 0 /\ on_progress = "none"
    /\ pc[1] = "skipped" /\ events[1] = <<"pbar">> /\ log[1] = <<>>

\* C13: a request that starts, or leaves its pre-flight poll, once cancelled
\* is set returns False there: no HTTP attempt, no slot taken, no file
\* written and no report of either kind, whether or not its file exists and
\* whether or not paused is set.
C13_CancelledBeforeStart ==
    [][\A t \in Tasks :
         (cancelled /\ pc[t] \in {"start", "prepoll"} /\ pc'[t] # pc[t]) =>
             /\ pc'[t] = "cancelled_pre"
             /\ events'[t] = <<>>
             /\ semValue' = semValue
             /\ files' = files
             /\ log' = log]_vars

\* C13 witness: a request whose file exists returned at the cancel check,
\* with paused set.
C13_Witness ==
    /\ cancelled /\ paused
    /\ pc[1] = "cancelled_pre" /\ requests[1] \in files
    /\ events[1] = <<>> /\ log[1] = <<>>

\* C14: whatever one request ends with (a status other than 200, a timeout,
\* an exception of the URL builder, of the client, of the file write or of
\* the progress callback), download() does not raise, and when it returns
\* every request of the list has ended.
C14_ErrorsContained ==
    /\ callPhase # "raised"
    /\ callPhase = "returned" => \A t \in Tasks : pc[t] \in Terminal

\* The responses of the attempts of request t, in order.
ResponsesOf(t) == [i \in 1..Len(log[t]) |-> log[t][i].response]

\* The seconds slept after each attempt of request t, in order.
SleepsOf(t) == [i \in 1..Len(log[t]) |-> log[t][i].sleep]

\* C15: every 429 uses up the attempt it answers and is followed by a sleep
\* of 2^attempt seconds; and a request answered 429, 429, 200 has, when it
\* ends, made exactly the attempts 0, 1, 2, slept 1 s and 2 s, created its
\* file, and made exactly one report, of "success" (the file write and the
\* report not raising: a write that raises ends the request as an error).
C15_BackoffOn429 ==
    \A t \in traced :
        /\ \A i \in 1..Len(log[t]) :
               /\ log[t][i].attempt = i - 1
               /\ log[t][i].response = "429" => log[t][i].sleep = 2^(i - 1)
               /\ log[t][i].response = "200" => i = Len(log[t])
        /\ (ResponsesOf(t) = <<"429", "429", "200">> /\ pc[t] \in Terminal) =>
               /\ SleepsOf(t) = <<1, 2, 0>>
               /\ requests[t] \in files
               /\ (~CallbackRaised(t) /\ pc[t] # "error") =>
                      /\ pc[t] = "success"
                      /\ events[t] = <<IF on_progress = "callback"
                                        THEN "success" ELSE "pbar">>

\* C15 witness: 429, 429, 200, then the file written and "success" reported
\* to the callback.
C15_Witness ==
    /\ ResponsesOf(1) = <<"429", "429", "200">>
    /\ SleepsOf(1) = <<1, 2, 0>>
    /\ pc[1] = "success" /\ events[1] = <<"success">>
    /\ requests[1] \in files

\* What a fetch that is not retried ends with: a status other than 200 and
\* 429, an exception of the client, or one raised before the request.
Permanent == {"other", "exception", "raised"}

\* C16: an attempt that ends with a status other than 200 and 429, or with
\* an exception that is not a timeout, is the last one of its request
\* however many attempts remain: the request has ended, with no sleep and
\* no file, and "failed" was given to the callback exactly once (the
\* callback returning normally).
C16_PermanentErrorNotRetried ==
    \A t \in traced :
        \A i \in 1..Len(log[t]) :
            log[t][i].response \in Permanent =>
                /\ i = Len(log[t])
                /\ log[t][i].sleep = 0
                /\ pc[t] \in Terminal
                /\ requests[t] \notin files
                /\ ~CallbackRaised(t) =>
                       events[t] = CallbackOnly("failed", <<>>)

\* C16 witness: a 429, then a status that is not retried with an attempt to
\* spare, and one "failed".
C16_Witness ==
    /\ ResponsesOf(1) = <<"429", "other">>
    /\ pc[1] = "http_error" /\ events[1] = <<"failed">>
    /\ requests[1] \notin files

\* C17: a request makes at most retry_attempts attempts, one after the
\* other (the attempt in flight is the one after the last that ended); a
\* timeout is followed by a sleep of one second if an attempt remains, and
\* a timeout of the last attempt by no sleep and no attempt: the request
\* ends there.
C17_AttemptBudget ==
    \A t \in traced :
        /\ Len(log[t]) <= retry_attempts
        /\ \A i \in 1..Len(log[t]) :
               /\ log[t][i].attempt = i - 1
               /\ log[t][i].response = "timeout" =>
                      log[t][i].sleep = (IF i < retry_attempts THEN 1 ELSE 0)
        /\ pc[t] = "get" =>
               attempt[t] = Len(log[t]) /\ attempt[t] < retry_attempts
        /\ (Len(log[t]) = retry_attempts
               /\ log[t][retry_attempts].response = "timeout") =>
               pc[t] = "exhausted"

\* C17 witness: three timeouts, a sleep of one second after the first two
\* only, and the request has ended.
C17_Witness ==
    /\ ResponsesOf(1) = <<"timeout", "timeout", "timeout">>
    /\ SleepsOf(1) = <<1, 1, 0>>
    /\ pc[1] = "exhausted"

Shown(st) ==
    IF st \in {"Cancelling...", "Cancelling (Ctrl+C)..."} THEN "Cancelling" ELSE st

\* The moves of the status: Running and Paused alternate, either is left
\* for Cancelling when the user cancels, Cancelling ends in Cancelled, and a
\* download that was not cancelled ends in Completed.
StatusMoves ==
    {<<"Running", "Paused">>, <<"Paused", "Running">>,
     <<"Running", "Cancelling">>, <<"Paused", "Cancelling">>,
     <<"Cancelling", "Cancelling">>, <<"Cancelling", "Cancelled">>,
     <<"Running", "Completed">>, <<"Paused", "Completed">>}

\* C19: the status line only makes the moves of StatusMoves; once the user
\* has cancelled it never shows Running or Paused again; and the final
\* status is Cancelled if cancel was requested and Completed otherwise.
C19_StatusMachine ==
    /\ [][status' # status =>
             <<Shown(status), Shown(status')>> \in StatusMoves]_vars
    /\ [](cancelled => status \notin {"Running", "Paused"})
    /\ [](tuiPc = "done" =>
             status = (IF cancelled THEN "Cancelled" ELSE "Completed"))

\* The provider requires an API key and neither --api-key nor the
\* provider's environment variable supplies one.
KeyMissing ==
    /\ requires_api_key(argv.provider)
    /\ ~Truthy(argv.api_key)
    /\ ~Truthy(environ)

\* C20: in batch mode with a provider that requires an API key and no key
\* supplied, main() never gets past the key check: no TileDownloader is
\* constructed, no directory created and no network used, and the process
\* ends with a non-zero exit code and a message on stderr, which is the
\* message about the key with exit code 2 unless the planning of the tiles
\* raised before the check.
C20_MissingKeyAborts ==
    KeyMissing =>
        /\ effects = {}
        /\ mainPc \in {"plan", "key", "exit"}
        /\ mainPc = "exit" =>
               \/ exitCode = 2
                    /\ stderr = "--api-key or environment variable is required"
               \/ exitCode = 1 /\ stderr = "traceback"

\* C20 witness: a run that was not a dry run, with the empty string as
\* --api-key and as the environment variable, ended at the key check.
C20_Witness ==
    /\ KeyMissing /\ ~argv.dry_run
    /\ argv.api_key = "" /\ environ = ""
    /\ mainPc = "exit" /\ exitCode = 2
    /\ stderr = "--api-key or environment variable is required"
    /\ effects = {}

\* C21 (as stated): a missing required API key stops main() no earlier
\* than the first URL construction, which is part of the download: a bbox
\* or kml run without the key, whose planning did not raise, ends either
\* as a dry run that printed its planned tile count and returned 0, or
\* after download() was run.
C21_KeyNeededOnlyForUrls ==
    (KeyMissing /\ mainPc = "exit" /\ stderr # "traceback") =>
        IF argv.dry_run
        THEN exitCode = 0 /\ "planned" \in effects
        ELSE "network" \in effects

\* The sum of a sequence of numbers.
RECURSIVE SumSeq(_)
SumSeq(q) == IF q = <<>> THEN 0 ELSE Head(q) + SumSeq(Tail(q))

\* C22: _requests_for_regions with max_tiles = n returns at most n
\* requests, which are the first n of the tiles in the order zoom, region,
\* tile (all of them if there are fewer), and with max_tiles = None it
\* returns a request for every tile, so as many as count_tiles_for_regions
\* counts; a negative n is not considered.
C22_MaxTilesIsAPrefix ==
    call.fn = "_requests_for_regions" =>
        LET tiles == ZoomLoop(call.regions, call.min_zoom, call.max_zoom)
            all == [i \in DOMAIN tiles |->
                        TileRequest(tiles[i][1], tiles[i][2], tiles[i][3])]
            r == call.result
        IN  /\ \A i, j \in DOMAIN r : i < j => r[i].zoom <= r[j].zoom
            /\ call.max_tiles = None =>
                   /\ r = all
                   /\ Len(r) = count_tiles_for_regions(call.regions,
                                   call.min_zoom, call.max_zoom)
            /\ \A n \in call.max_tiles :
                   /\ Len(r) <= n
                   /\ r = SubSeq(all, 1, Min(n, Len(all)))

\* C22 witness: two regions over two zoom levels, and a limit that drops
\* some of the tiles.
C22_Witness ==
    /\ call.fn = "_requests_for_regions"
    /\ Len(call.regions) = 2 /\ call.min_zoom < call.max_zoom
    /\ \E n \in call.max_tiles :
           /\ n >= 2 /\ Len(call.result) = n
           /\ n < Len(ZoomLoop(call.regions, call.min_zoom, call.max_zoom))

\* C23: count_tiles_for_bbox over one zoom level is the product of width
\* and height of bbox_tile_span and the number of tiles that
\* iter_tiles_for_bbox yields; over a zoom range it is the sum of these; and
\* count_tiles_for_regions is the sum of count_tiles_for_bbox over the
\* regions.
C23_CountMatchesEnumeration ==
    LET b == call.box
        lo == call.min_zoom
        hi == call.max_zoom
        Span(z) == bbox_tile_span(b[1], b[2], b[3], b[4], z)
        Area(z) == (Span(z)[2] - Span(z)[1] + 1) * (Span(z)[4] - Span(z)[3] + 1)
        Yielded(z) == Len(iter_tiles_for_bbox(b[1], b[2], b[3], b[4], z))
        Levels == IF lo > hi THEN 0 ELSE hi - lo + 1
    IN  /\ call.fn = "count_tiles_for_bbox" =>
               /\ call.result = SumSeq([i \in 1..Levels |-> Area(lo + i - 1)])
               /\ call.result = SumSeq([i \in 1..Levels |-> Yielded(lo + i - 1)])
               /\ lo = hi => call.result = Area(lo) /\ call.result = Yielded(lo)
        /\ call.fn = "iter_tiles_for_bbox" =>
               /\ Len(call.result) = Area(call.zoom)
               /\ Len(call.result) =
                      count_tiles_for_bbox(b[1], b[2], b[3], b[4],
                                           call.zoom, call.zoom)
        /\ call.fn = "count_tiles_for_regions" =>
               call.result =
                   SumSeq([i \in DOMAIN call.regions |->
                              LET r == call.regions[i]
                              IN  count_tiles_for_bbox(r[1], r[2], r[3], r[4],
                                                       lo, hi)])

\* C23 witness: the count of a box of several tiles over a range of zoom
\* levels.
C23_Witness ==
    /\ call.fn = "count_tiles_for_bbox"
    /\ call.min_zoom < call.max_zoom
    /\ call.result > 4
    /\ call.box[1] > call.box[3]

\* C24: for a bounding box with its corners in any order, bbox_tile_span
\* returns start_x <= end_x and start_y <= end_y, start_y being the row of
\* the northern latitude, and for a box that is one point start and end
\* are equal.
C24_SpanIsOrdered ==
    call.fn = "bbox_tile_span" =>
        LET b == call.box
            r == call.result
        IN  /\ r[1] <= r[2] /\ r[3] <= r[4]
            /\ r[3] = lat2tiley(IF b[1] >= b[3] THEN b[1] ELSE b[3], call.zoom)
            /\ (b[1] = b[3] /\ b[2] = b[4]) => (r[1] = r[2] /\ r[3] = r[4])

\* C24 witness: a box given with north below south and east left of west,
\* with a span of more than one column and more than one row.
C24_Witness ==
    /\ call.fn = "bbox_tile_span"
    /\ call.box[1] > call.box[3] /\ call.box[2] > call.box[4]
    /\ call.result[1] < call.result[2] /\ call.result[3] < call.result[4]

\* C25: the result of normalize_bbox has south <= north and west <= east,
\* is made of the smaller and the larger of the two latitudes and of the
\* two longitudes given, is the same when the two latitudes or the two
\* longitudes are exchanged, and is returned unchanged by normalize_bbox.
C25_NormalizeBbox ==
    call.fn = "normalize_bbox" =>
        LET b == call.box
            r == call.result
        IN  /\ r[1] <= r[3] /\ r[2] <= r[4]
            /\ {r[1], r[3]} = {b[1], b[3]} /\ {r[2], r[4]} = {b[2], b[4]}
            /\ r = normalize_bbox(b[3], b[2], b[1], b[4])
            /\ r = normalize_bbox(b[1], b[4], b[3], b[2])
            /\ r = normalize_bbox(r[1], r[2], r[3], r[4])

\* C25 witness: both pairs were given in the wrong order.
C25_Witness ==
    /\ call.fn = "normalize_bbox"
    /\ call.box[1] > call.box[3] /\ call.box[2] > call.box[4]
    /\ call.result # call.box

\* The point placemarks that have coordinates, and the vertices of the
\* paths, of the placemarks pmarks.
PointCount(pmarks) ==
    Cardinality({i \in DOMAIN pmarks :
                    Len(pmarks[i].pts) = 1 /\ pmarks[i].pts[1] # <<>>})
PathVertices(pmarks) ==
    SumSeq([i \in DOMAIN pmarks |->
               IF Len(pmarks[i].pts) = 1 THEN 0
               ELSE SumSeq([j \in DOMAIN pmarks[i].lstrs |->
                               Len(pmarks[i].lstrs[j])])])

\* C26 (as stated): kml_to_regions returns a region labelled with the
\* name (or "point") for each point placemark and a region labelled
\* name_NNNNNN (or path_NNNNNN), numbered from 0 within its placemark, for
\* each vertex of each path: p + v regions for p points and v vertices.
C26_RegionPerPointAndVertex ==
    call.fn = "kml_to_regions" =>
        LET pmarks == call.pmarks
            keys == {call.result[i].key : i \in DOMAIN call.result}
        IN  /\ \A i \in DOMAIN pmarks :
                   LET p == pmarks[i]
                   IN  IF Len(p.pts) = 1
                       THEN p.pts[1] # <<>> =>
                                NameOr(p.name, <<"p", "o", "i", "n", "t">>) \in keys
                       ELSE \A k \in 0..(Len(p.lstrs[1]) - 1) :
                                VertexName(NameOr(p.name, <<"p", "a", "t", "h">>), k)
                                    \in keys
            /\ Len(call.result) = PointCount(pmarks) + PathVertices(pmarks)

\* The 'X / All of X' items of the menu.
AllOfItems ==
    {idx \in 1..(Len(menu.choices) - 1) : ContainsAllOf(At(menu.choices, idx))}

\* The other items of the menu whose label starts with 'X / '.
OthersOf(idx) ==
    {i \in 0..(Len(menu.choices) - 1) :
        /\ i # idx
        /\ Len(At(menu.choices, i)) > 1
        /\ At(menu.choices, i)[1] = At(menu.choices, idx)[1]}

HierarchicalMenu == menu.choices # <<>> /\ menu.multi /\ menu.hierarchical_all

C28_OneFrontEnd ==
    (mainPc = "exit" /\ argv.command = "none") =>
        IF cli.HAS_CURSES
        THEN Count(cli.calls, "main_tui") = 1 /\ Count(cli.calls, "_run_wizard") = 0
        ELSE Count(cli.calls, "_run_wizard") = 1 /\ Count(cli.calls, "main_tui") = 0

\* ProgressScreen's counters: on_progress, the callback of the engine,
\* adds one to completed, failed or skipped for each event it is called
\* with, before it draws; total is count_tiles_for_regions of the regions
\* the requests were built from, the length of the request list.
Reported(status_) ==
    SumSeq([t \in 1..Len(requests) |-> Count(events[t], status_)])
completed == Reported("success")
failed == Reported("failed")
skipped == Reported("skipped")
total == Len(requests)

\* C29 (as stated): in the full-screen front end completed + failed +
\* skipped never exceeds total, and equals total once the status is
\* 'Completed'; each progress event adds one to exactly one counter, so
\* the sum is the number of events.
C29_CountersAddUp ==
    /\ completed + failed + skipped = SumSeq([t \in 1..Len(requests) |-> Len(events[t])])
    /\ completed + failed + skipped <= total
    /\ status = "Completed" => completed + failed + skipped = total

\* The value of the progress bar: one for each pbar.update(1).
pbar == SumSeq([t \in 1..Len(requests) |-> Count(events[t], "pbar")])

\* C30 (as stated): without a callback, a request that has ended as
\* success, skipped or failed has advanced the progress bar exactly once,
\* and no other request has advanced it; when download() has returned
\* without cancellation the bar shows the number of requests.
C30_BarCountsEveryOutcome ==
    /\ \A t \in Tasks :
           Count(events[t], "pbar") =
               IF pc[t] \in {"success", "skipped", "http_error", "error",
                             "exhausted", "setup_error"}
               THEN 1 ELSE 0
    /\ (callPhase = "returned" /\ ~cancelled) => pbar = Len(requests)

\* C31 (as stated): for the same regions, --max-zoom and --max-tiles, the
\* number that --dry-run prints is the number of requests that the run
\* without --dry-run hands to the engine.
C31_DryRunCountsTheRequests ==
    call.fn = "main" => call.result.total = Len(call.result.requests)

\* C32 (as stated): the list that _requests_for_regions or _build_requests
\* returns names no coordinate (zoom, x, y) twice.
C32_NoCoordinateTwice ==
    call.fn \in {"_requests_for_regions", "_build_requests"} =>
        \A i, j \in DOMAIN call.result :
            call.result[i] = call.result[j] => i = j

\* C33 (as stated): the file of the observed request is created only in a
\* step in which its attempt got a 200 and read the body, and never when
\* it was on disk already; and when the request has ended failed,
\* exhausted or cancelled after it passed the existence check, its file
\* is not on disk.
C33_OnlySuccessLeavesAFile ==
    /\ [][files' # files =>
            /\ requests[1] \notin files
            /\ files' = files \cup {requests[1]}
            /\ pc'[1] = "write"
            /\ log'[1][Len(log'[1])].response = "200"]_vars
    /\ [](pc[1] \in {"http_error", "error", "exhausted", "setup_error",
                     "cancelled_in", "raised_in"}
              => requests[1] \notin files)

\* C34 (as stated): the downloader that a bbox or kml run has constructed
\* has the provider's default_concurrency as concurrent_requests when
\* --concurrency was not given, and n when --concurrency n with n > 0 was.
C34_ConcurrencyOfTheProvider ==
    (argv.command \in {"bbox", "kml"} /\ "outdir" \in effects) =>
        /\ argv.concurrency = None =>
               concurrent_requests = default_concurrency(argv.provider)
        /\ \A n \in argv.concurrency : n > 0 => concurrent_requests = n

\* C35 (as stated): ENTER in a multi-select menu returns a list that is
\* not empty and holds indices of items only, whatever keys came before.
C35_EnterReturnsASelection ==
    [][(menu.multi /\ Enter) =>
           /\ menu'.returned.items # {}
           /\ menu'.returned.items \subseteq 0..(Len(menu.choices) - 1)]_vars

\* C36 (as stated): in a hierarchical multi-select menu that is open,
\* SPACE flips the displayed state of the item under the cursor: at index
\* 0 it sets items 1..n-1 to selected unless all were, and to not selected
\* if they were; on an 'X / All of X' item it does so for the other items
\* of X; on a regular item it toggles that item and no other.
C36_SpaceFlipsTheItem ==
    (HierarchicalMenu /\ InRun) =>
        LET cur == menu.current
            n == Len(menu.choices)
            after == [menu EXCEPT !.selected = space_selected(menu)]
            Was(i) == get(menu.selected, i)
            Is(i) == get(after.selected, i)
        IN  /\ get_display_selected(after, cur) = ~get_display_selected(menu, cur)
            /\ IF menu.all_toggle /\ cur = 0
               THEN \A i \in 1..(n - 1) : Is(i) = ~(\A j \in 1..(n - 1) : Was(j))
               ELSE IF cur \in AllOfItems
               THEN /\ \A i \in OthersOf(cur) :
                           Is(i) = ~(\A j \in OthersOf(cur) : Was(j))
                    /\ \A i \in (0..(n - 1)) \ OthersOf(cur) : Is(i) = Was(i)
               ELSE /\ Is(cur) = ~Was(cur)
                    /\ \A i \in (0..(n - 1)) \ {cur} : Is(i) = Was(i)

\* The place of a level in the selection flow, 1 for the continents.
LevelNo(level) == CHOOSE i \in 1..Len(MenuLevels) : MenuLevels[i] = level

\* 'b' was pressed in the open Menu / 'q' or ESC was.
BackPressed == InMenu /\ menu.returned.kind = "list" /\ menu.returned.items = {-1}
QuitPressed == InMenu /\ menu.returned.kind = "None"

\* After 'b' tui_main shows the Menu of the level directly above, anew.
BackGoesOneLevelUp ==
    [][BackPressed =>
          /\ tui'.pc = MenuLevels[LevelNo(tui.pc) - 1]
          /\ menu' = NewMenu(choices_of(tui'.pc, tui'), kind_of(tui'.pc), tui.max_y)]_vars

\* After 'q' or ESC tui_main returns 1 and has made no downloader.
QuitReturnsOne ==
    /\ [][QuitPressed =>
             tui'.pc = "returned" /\ tui'.code = 1 /\ ~tui'.downloader]_vars
    /\ [](tui.pc = "returned" => ~tui.downloader)

\* C37 (as stated): in the selection flow of tui_main, 'b' in a menu leads
\* to the menu of the level directly above it, 'q' or ESC in a menu ends
\* tui_main with 1 and without a downloader, and the download phase is
\* reached only after a selection was confirmed at every one of the five
\* levels continents, countries, states, provider and style.
C37_FlowAllFiveLevels ==
    /\ BackGoesOneLevelUp
    /\ QuitReturnsOne
    /\ [](tui.pc = "download" =>
             tui.confirmed = {MenuLevels[i] : i \in 1..Len(MenuLevels)})

\* C37 (amended): as above, but the style level is part of the flow only
\* for a provider that has styles: the download phase is reached only
\* after a selection was confirmed at continents, countries, states and
\* provider, and at the style level exactly when the provider has styles.
C37_FlowEveryLevelShown ==
    /\ BackGoesOneLevelUp
    /\ QuitReturnsOne
    /\ [](tui.pc = "download" =>
             tui.confirmed =
                {"continents", "countries", "states", "provider"}
                    \cup (IF styles(tui.provider) # <<>> THEN {"style"} ELSE {}))

\* The download phase is reached for the provider without styles, the
\* style menu never confirmed.
C37_Witness ==
    /\ tui.pc = "download"
    /\ tui.downloader
    /\ tui.provider = "osm"
    /\ "style" \notin tui.confirmed

\* One of the keys up, down, page up, page down is handled.
MovementKey == KeyDown \/ KeyUp \/ PageDown \/ PageUp

\* C38: for a Menu with a non-empty choice list, after any sequence of
\* keys the cursor is within 0..len(choices)-1 and the scroll offset within
\* 0..max(0, len(choices) - visible), and the keys up, down, page up and
\* page down leave the selection as it was.
C38_CursorAndScrollInRange ==
    /\ [](menu.choices # <<>> =>
             /\ 0 <= menu.current /\ menu.current <= Len(menu.choices) - 1
             /\ 0 <= menu.top
             /\ menu.top <= Max(0, Len(menu.choices) - visible))
    /\ [][MovementKey =>
             /\ menu'.selected = menu.selected
             /\ \A i \in 0..(Len(menu.choices) - 1) :
                   get_display_selected(menu', i) = get_display_selected(menu, i)]_vars

\* The menu is scrolled, the cursor is on its last item and an item is
\* selected.
C38_Witness ==
    /\ menu.choices # <<>>
    /\ menu.returned.kind = "running"
    /\ menu.top > 0
    /\ menu.top = Len(menu.choices) - visible
    /\ menu.current = Len(menu.choices) - 1
    /\ \E i \in DOMAIN menu.selected : menu.selected[i]

====
